---------------------------- MODULE Spec2Model ----------------------------
(***************************************************************************)
(* Model of the calendar-events request builder (CalendarEventsClient<T>)  *)
(* and of the token lifecycle that gates every dispatched call.            *)
(*                                                                         *)
(* One builder, borrowed exclusively from one GoogleClient, is followed    *)
(* through its life: new -> entry transition -> configuration methods ->   *)
(* request().  request() is asynchronous; its await points (the token      *)
(* refresh call and the resource call) are separate steps, and the clock   *)
(* may advance while a request() is running.                               *)
(***************************************************************************)
EXTENDS Integers, Sequences, FiniteSets, TLC

(***************************************************************************)
(* Bounds of the model.                                                    *)
(***************************************************************************)
\* configuration methods and request() calls in a run
MaxOps == 2
\* the clock runs from 0 to MaxTime
MaxTime == 1
\* configuration methods in a chain on a list builder
MaxChain == 4

(***************************************************************************)
(* Option<T> is a sequence of length at most one, Vec<T> a sequence, a     *)
(* HashMap<String, String> a function whose domain is the set of keys.     *)
(***************************************************************************)
None == << >>
Some(v) == << v >>
IsSome(o) == o # None
Unwrap(o) == o[1]

EmptyMap == [k \in {} |-> ""]
\* HashMap::insert: the key's old value, if any, is replaced
MapInsert(m, k, v) == [x \in (DOMAIN m) \cup {k} |-> IF x = k THEN v ELSE m[x]]

(***************************************************************************)
(* Conversions to text, computed as the library computes them.             *)
(***************************************************************************)
Digit(d) ==
    CASE d = 0 -> "0" [] d = 1 -> "1" [] d = 2 -> "2" [] d = 3 -> "3"
      [] d = 4 -> "4" [] d = 5 -> "5" [] d = 6 -> "6" [] d = 7 -> "7"
      [] d = 8 -> "8" [] d = 9 -> "9"

RECURSIVE IntToString(_)
\* i64::to_string (also i8, i16): decimal, a leading '-' for negatives
IntToString(n) ==
    IF n < 0 THEN "-" \o IntToString(0 - n)
    ELSE IF n < 10 THEN Digit(n)
    ELSE IntToString(n \div 10) \o Digit(n % 10)

\* bool::to_string
BoolToString(b) == IF b THEN "true" ELSE "false"

Pad2(n) == IF n < 10 THEN "0" \o IntToString(n) ELSE IntToString(n)
Pad4(n) ==
    IF n < 10 THEN "000" \o IntToString(n)
    ELSE IF n < 100 THEN "00" \o IntToString(n)
    ELSE IF n < 1000 THEN "0" \o IntToString(n)
    ELSE IntToString(n)

\* to_rfc3339 with the offset of UTC written as 'Z'
to_rfc3339_zulu(t) ==
    Pad4(t.year) \o "-" \o Pad2(t.month) \o "-" \o Pad2(t.day) \o "T"
      \o Pad2(t.hour) \o ":" \o Pad2(t.minute) \o ":" \o Pad2(t.second)
      \o "Z"

\* DateTime<Utc>::to_rfc3339: date 'T' time and the numeric UTC offset
to_rfc3339(t) ==
    Pad4(t.year) \o "-" \o Pad2(t.month) \o "-" \o Pad2(t.day) \o "T"
      \o Pad2(t.hour) \o ":" \o Pad2(t.minute) \o ":" \o Pad2(t.second)
      \o "+00:00"

\* EventOrderBy::as_str
EventOrderBy_as_str(by) ==
    CASE by = "StartTime" -> "startTime"
      [] by = "Updated" -> "updated"

\* EventType::as_str
EventType_as_str(t) ==
    CASE t = "Birthday" -> "birthday"
      [] t = "Default" -> "default"
      [] t = "FocusTime" -> "focusTime"
      [] t = "FromGmail" -> "fromGmail"
      [] t = "OutOfOffice" -> "outOfOffice"
      [] t = "WorkingLocation" -> "workingLocation"

(***************************************************************************)
(* Inputs the callers draw from.                                           *)
(***************************************************************************)
CalendarIds == {"primary", "team"}
EventIds == {"ev1"}
EventOrderBy == {"StartTime", "Updated"}
EventType ==
    {"Birthday", "Default", "FocusTime", "FromGmail", "OutOfOffice", "WorkingLocation"}
Strings == {"a", "b"}
Numbers == {10, 250}
SmallNumbers == {0, 1}
DateTimes ==
    { [year |-> 2025, month |-> 7, day |-> 28, hour |-> 9, minute |-> 5, second |-> 0],
      [year |-> 2026, month |-> 11, day |-> 2, hour |-> 23, minute |-> 30, second |-> 59] }
EventDateTimes ==
    { [date |-> Some("2025-07-28"), date_time |-> None, time_zone |-> None],
      [date |-> Some("2025-07-29"), date_time |-> None, time_zone |-> None] }
\* the start and the end insert_event is tried with
StartDateTimes == { [date |-> Some("2025-07-28"), date_time |-> None, time_zone |-> None] }
EndDateTimes == { [date |-> Some("2025-07-30"), date_time |-> None, time_zone |-> None] }
AttendeeLists ==
    { << >>, << [email |-> "x@example.com"] >>,
      << [email |-> "y@example.com"], [email |-> "z@example.com"] >> }
RecurrenceLists == { << >>, << "RRULE:FREQ=DAILY" >>, << "RRULE:FREQ=WEEKLY", "EXDATE:1" >> }
ReminderValues ==
    { [use_default |-> TRUE, overrides |-> << >>],
      [use_default |-> FALSE, overrides |-> << [method |-> "popup", minutes |-> 10] >>] }
ExtendedPropertiesValues ==
    { [private |-> None, shared |-> None],
      [private |-> Some([k \in {"tag"} |-> "v"]), shared |-> None] }
BirthdayPropertiesValues == { [type |-> "birthday"], [type |-> "anniversary"] }
OutOfOfficePropertiesValues ==
    { [auto_decline_mode |-> "declineNone"], [auto_decline_mode |-> "declineAll"] }
WorkingLocationPropertiesValues == { [type |-> "homeOffice"], [type |-> "officeLocation"] }
EventSourceValues ==
    { [title |-> "t", url |-> "https://example.com/1"],
      [title |-> "u", url |-> "https://example.com/2"] }
\* the event types the payload setters are tried with
PayloadEventTypes == {"Birthday", "FocusTime"}
\* the strings set_send_updates and send_updates are tried with: they take any
\* &str, the documented options and any other
SendUpdatesValues == {"all", "externalOnly", "none", "everyone"}

(***************************************************************************)
(* The payloads.                                                           *)
(***************************************************************************)
\* CreateEventRequest::new that fills summary with an empty string
CreateEventRequest_new_empty_summary(start, end) ==
    [ start |-> start, end |-> end,
      anyone_can_add_self |-> None, attendees |-> << >>,
      birthday_properties |-> None, color_id |-> None, conference_data |-> None,
      description |-> None, event_type |-> None, extended_properties |-> None,
      focus_time_properties |-> None, gadget |-> None,
      guests_can_invite_others |-> None, guests_can_modify |-> None,
      guests_can_see_other_guests |-> None, id |-> None, ical_uid |-> None,
      location |-> None, out_of_office_properties |-> None, recurrence |-> << >>,
      reminders |-> None, sequence |-> None, source |-> None, status |-> None,
      summary |-> Some(""), transparency |-> None, visibility |-> None,
      working_location_properties |-> None ]

\* CreateEventRequest::new: start and end as given, every other field empty
CreateEventRequest_new(start, end) ==
    [ start |-> start, end |-> end,
      anyone_can_add_self |-> None, attendees |-> << >>,
      birthday_properties |-> None, color_id |-> None, conference_data |-> None,
      description |-> None, event_type |-> None, extended_properties |-> None,
      focus_time_properties |-> None, gadget |-> None,
      guests_can_invite_others |-> None, guests_can_modify |-> None,
      guests_can_see_other_guests |-> None, id |-> None, ical_uid |-> None,
      location |-> None, out_of_office_properties |-> None, recurrence |-> << >>,
      reminders |-> None, sequence |-> None, source |-> None, status |-> None,
      summary |-> None, transparency |-> None, visibility |-> None,
      working_location_properties |-> None ]

\* PatchEventRequest::default() (derived Default): every field None or empty
PatchEventRequest_default ==
    [ end |-> None, start |-> None,
      anyone_can_add_self |-> None, attendees |-> << >>,
      birthday_properties |-> None, color_id |-> None, conference_data |-> None,
      description |-> None, event_type |-> None, extended_properties |-> None,
      focus_time_properties |-> None, gadget |-> None,
      guests_can_invite_others |-> None, guests_can_modify |-> None,
      guests_can_see_other_guests |-> None, id |-> None,
      location |-> None, out_of_office_properties |-> None, recurrence |-> << >>,
      reminders |-> None, sequence |-> None, source |-> None, status |-> None,
      summary |-> None, transparency |-> None, visibility |-> None,
      working_location_properties |-> None ]

\* enum EventRequest { Create(CreateEventRequest), Patch(PatchEventRequest) }
Create(req) == [variant |-> "Create", req |-> req]
Patch(req) == [variant |-> "Patch", req |-> req]

(***************************************************************************)
(* The state.                                                              *)
(***************************************************************************)
VARIABLES
    mode,      \* the builder's mode tag T of CalendarEventsClient<'a, T>
    request,   \* the builder's Request: method, url, params
    event,     \* the builder's Option<EventRequest>
    client,    \* the GoogleClient: credentials, access token, expires_at
    now,       \* the clock
    pc,        \* where the running request() is: idle when none is running
    path,      \* the dispatch function the running request() goes through
    net,       \* the HTTP call in flight, None when there is none
    calls,     \* the HTTP calls issued by the running (or last) request()
    outcome,   \* what the last request() returned, None before the first
    check,     \* what the token check of that request() returned, None before it
    refreshed, \* the answer to that request()'s refresh call, None without one
    answer,    \* the answer to that request()'s resource call, None without one
    pre,       \* the client as it was when the running (or last) request() began
    storedAt,  \* the time at which the client's access token was stored
    attempts,  \* the refresh calls sent for that token since it was stored
    rotated,   \* the refresh token the last answer that held one has delivered
    given,     \* the arguments of the entry transition the builder went through
    written,   \* the configuration methods called on the builder since its entry
               \* transition: for each, its last argument and the one before
    sent,      \* the resource calls the builder has sent since it was last
               \* configured, over all its request() calls
    ops        \* the number of configuration methods and request() calls so far

builderVars == << mode, request, event >>
clientVars == << client, storedAt, attempts, rotated, now >>
runVars == << path, calls, outcome, check, refreshed, answer, pre >>
vars == << builderVars, clientVars, runVars, pc, net, given, written, sent, ops >>


\* the builder as one value: what a method takes as self and returns
Self == [mode |-> mode, request |-> request, event |-> event]

(***************************************************************************)
(* impl CalendarEventsClient<Uninitialized>: new and the entry transitions *)
(***************************************************************************)
CalendarsUrl == "https://www.googleapis.com/calendar/v3/calendars/"

\* Request::new(client): nothing is set yet
Request_new == [method |-> "GET", url |-> "", params |-> EmptyMap]

\* CalendarEventsClient::new
CalendarEventsClient_new ==
    [mode |-> "Uninitialized", request |-> Request_new, event |-> None]

\* get_events returning the builder in the mode for single events
get_events_in_get_mode(self, calendar_id) ==
    [ mode |-> "EventGetMode",
      request |-> [self.request EXCEPT
                     !.url = CalendarsUrl \o calendar_id \o "/events",
                     !.method = "GET"],
      event |-> None ]

get_events(self, calendar_id) ==
    [ mode |-> "EventListMode",
      request |-> [self.request EXCEPT
                     !.url = CalendarsUrl \o calendar_id \o "/events",
                     !.method = "GET"],
      event |-> None ]

\* insert_event handing its arguments to CreateEventRequest::new in the other
\* order
insert_event_swapped(self, calendar_id, start, end) ==
    [ mode |-> "EventInsertMode",
      request |-> [self.request EXCEPT
                     !.url = CalendarsUrl \o calendar_id \o "/events",
                     !.method = "POST"],
      event |-> Some(Create(CreateEventRequest_new(end, start))) ]

insert_event(self, calendar_id, start, end) ==
    [ mode |-> "EventInsertMode",
      request |-> [self.request EXCEPT
                     !.url = CalendarsUrl \o calendar_id \o "/events",
                     !.method = "POST"],
      event |-> Some(Create(CreateEventRequest_new(start, end))) ]

\* patch_event addressing the collection: the event id is left out of the URL
patch_event_collection_url(self, calendar_id, event_id) ==
    [ mode |-> "EventPatchMode",
      request |-> [self.request EXCEPT
                     !.url = CalendarsUrl \o calendar_id \o "/events",
                     !.method = "PATCH"],
      event |-> Some(Patch(PatchEventRequest_default)) ]

patch_event(self, calendar_id, event_id) ==
    [ mode |-> "EventPatchMode",
      request |-> [self.request EXCEPT
                     !.url = CalendarsUrl \o calendar_id \o "/events/" \o event_id,
                     !.method = "PATCH"],
      event |-> Some(Patch(PatchEventRequest_default)) ]

delete_event(self, calendar_id, event_id) ==
    [ mode |-> "EventDeleteMode",
      request |-> [self.request EXCEPT
                     !.url = CalendarsUrl \o calendar_id \o "/events/" \o event_id,
                     !.method = "DELETE"],
      event |-> None ]

(***************************************************************************)
(* impl PaginationRequestTrait / TimeRequestTrait / CalendarEventsClient   *)
(* for EventListMode: every method inserts one query parameter.            *)
(***************************************************************************)
max_results(self, max) ==
    [self EXCEPT !.request.params = MapInsert(@, "maxResults", IntToString(max))]

page_token(self, token) ==
    [self EXCEPT !.request.params = MapInsert(@, "pageToken", token)]

time_min(self, t) ==
    [self EXCEPT !.request.params = MapInsert(@, "timeMin", to_rfc3339(t))]

time_max(self, t) ==
    [self EXCEPT !.request.params = MapInsert(@, "timeMax", to_rfc3339(t))]

event_type(self, type_) ==
    [self EXCEPT !.request.params = MapInsert(@, "eventTypes", EventType_as_str(type_))]

\* order_by that also switches singleEvents on, as its doc comment advises
order_by_with_single_events(self, by) ==
    [self EXCEPT !.request.params =
        MapInsert(MapInsert(@, "orderBy", EventOrderBy_as_str(by)),
                  "singleEvents", "true")]

order_by(self, by) ==
    [self EXCEPT !.request.params = MapInsert(@, "orderBy", EventOrderBy_as_str(by))]

max_attendees(self, max) ==
    [self EXCEPT !.request.params = MapInsert(@, "maxAttendees", IntToString(max))]

\* single_events that, switched off, takes the ordering away (startTime needs it)
single_events_dropping_order_by(self, single) ==
    [self EXCEPT !.request.params =
        IF single
        THEN MapInsert(@, "singleEvents", "true")
        ELSE [k \in (DOMAIN @ \cup {"singleEvents"}) \ {"orderBy"} |->
                 IF k = "singleEvents" THEN "false" ELSE @[k]]]

single_events(self, single) ==
    [self EXCEPT !.request.params = MapInsert(@, "singleEvents", BoolToString(single))]

show_hidden_invitations(self, max) ==
    [self EXCEPT !.request.params =
        MapInsert(@, "showHiddenInvitations", BoolToString(max))]

query(self, query_str) ==
    [self EXCEPT !.request.params = MapInsert(@, "q", query_str)]

(***************************************************************************)
(* impl CalendarEventsClient<EventInsertMode>: every setter assigns one    *)
(* field of the held Create payload through modify_event.                  *)
(***************************************************************************)
\* modify_event that puts the modified payload back under the other variant
Insert_modify_event_as_patch(self, field, value) ==
    IF IsSome(self.event) /\ Unwrap(self.event).variant = "Create"
    THEN [self EXCEPT !.event = Some(Patch([Unwrap(@).req EXCEPT ![field] = value]))]
    ELSE self

\* modify_event that runs the modifier on whatever payload is present
Insert_modify_event_any_variant(self, field, value) ==
    IF IsSome(self.event)
    THEN [self EXCEPT !.event = Some(Create([Unwrap(@).req EXCEPT ![field] = value]))]
    ELSE self

\* modify_event: the modifier runs only on Some(EventRequest::Create(_))
Insert_modify_event(self, field, value) ==
    IF IsSome(self.event) /\ Unwrap(self.event).variant = "Create"
    THEN [self EXCEPT !.event = Some(Create([Unwrap(@).req EXCEPT ![field] = value]))]
    ELSE self

Insert_set_summary(self, summary) == Insert_modify_event(self, "summary", Some(summary))
Insert_set_description(self, descr) ==
    Insert_modify_event(self, "description", Some(descr))
Insert_set_location(self, location) == Insert_modify_event(self, "location", Some(location))
Insert_set_attendees(self, attendees) == Insert_modify_event(self, "attendees", attendees)
Insert_set_type(self, type_) ==
    Insert_modify_event(self, "event_type", Some(EventType_as_str(type_)))
Insert_set_birtday_properties(self, p) ==
    Insert_modify_event(self, "birthday_properties", Some(p))
Insert_set_color_id(self, color_id) == Insert_modify_event(self, "color_id", Some(color_id))
Insert_set_guests_can_invite_others(self, can_invite) ==
    Insert_modify_event(self, "guests_can_invite_others", Some(can_invite))
Insert_set_guests_can_modify(self, can_modify) ==
    Insert_modify_event(self, "guests_can_modify", Some(can_modify))
Insert_set_guests_can_see_other_guests(self, can_see) ==
    Insert_modify_event(self, "guests_can_see_other_guests", Some(can_see))
Insert_set_id(self, id) == Insert_modify_event(self, "id", Some(id))
Insert_set_ical_uid(self, ical_uid) == Insert_modify_event(self, "ical_uid", Some(ical_uid))
Insert_set_out_of_office_properties(self, p) ==
    Insert_modify_event(self, "out_of_office_properties", Some(p))
Insert_set_recurrence(self, recurrence) ==
    Insert_modify_event(self, "recurrence", recurrence)
Insert_set_transparency(self, transparency) ==
    Insert_modify_event(self, "transparency", Some(transparency))
Insert_set_reminders(self, reminders) ==
    Insert_modify_event(self, "reminders", Some(reminders))
Insert_set_extended_properties(self, p) ==
    Insert_modify_event(self, "extended_properties", Some(p))

(***************************************************************************)
(* impl CalendarEventsClient<EventPatchMode>: payload setters through      *)
(* modify_event, and four query-parameter setters.                         *)
(***************************************************************************)
\* modify_event: the modifier runs only on Some(EventRequest::Patch(_))
Patch_modify_event(self, field, value) ==
    IF IsSome(self.event) /\ Unwrap(self.event).variant = "Patch"
    THEN [self EXCEPT !.event = Some(Patch([Unwrap(@).req EXCEPT ![field] = value]))]
    ELSE self

Patch_set_end(self, end) == Patch_modify_event(self, "end", Some(end))
Patch_set_start(self, start) == Patch_modify_event(self, "start", Some(start))
Patch_set_summary(self, summary) == Patch_modify_event(self, "summary", Some(summary))
Patch_set_description(self, descr) == Patch_modify_event(self, "description", Some(descr))
\* set_attendees that extends the held list instead of replacing it
Patch_set_attendees_extend(self, attendees) ==
    Patch_modify_event(self, "attendees",
        (IF IsSome(self.event) THEN Unwrap(self.event).req.attendees ELSE << >>)
            \o attendees)

Patch_set_attendees(self, attendees) == Patch_modify_event(self, "attendees", attendees)
Patch_set_color_id(self, id) == Patch_modify_event(self, "color_id", Some(id))
Patch_set_event_type(self, t) ==
    Patch_modify_event(self, "event_type", Some(EventType_as_str(t)))
Patch_set_guests_can_invite_others(self, can_invite) ==
    Patch_modify_event(self, "guests_can_invite_others", Some(can_invite))
Patch_set_guests_can_modify(self, can_modify) ==
    Patch_modify_event(self, "guests_can_modify", Some(can_modify))
Patch_set_guests_can_see_other_guests(self, can_see) ==
    Patch_modify_event(self, "guests_can_see_other_guests", Some(can_see))
Patch_set_id(self, id) == Patch_modify_event(self, "id", Some(id))
Patch_set_location(self, location) == Patch_modify_event(self, "location", Some(location))
Patch_set_out_of_office_properties(self, p) ==
    Patch_modify_event(self, "out_of_office_properties", Some(p))
Patch_set_recurrence(self, recurrence) == Patch_modify_event(self, "recurrence", recurrence)
Patch_set_reminders(self, reminders) == Patch_modify_event(self, "reminders", Some(reminders))
Patch_set_sequence(self, sequence) == Patch_modify_event(self, "sequence", Some(sequence))
Patch_set_source(self, source) == Patch_modify_event(self, "source", Some(source))
Patch_set_status(self, status) == Patch_modify_event(self, "status", Some(status))
Patch_set_transparancy(self, transparancy) ==
    Patch_modify_event(self, "transparency", Some(transparancy))
Patch_set_visibility(self, visibility) ==
    Patch_modify_event(self, "visibility", Some(visibility))
Patch_set_working_location_properties(self, p) ==
    Patch_modify_event(self, "working_location_properties", Some(p))
Patch_set_extended_properties(self, p) ==
    Patch_modify_event(self, "extended_properties", Some(p))

set_send_updates(self, send) ==
    [self EXCEPT !.request.params = MapInsert(@, "sendUpdates", send)]

set_conference_data_version(self, v) ==
    [self EXCEPT !.request.params = MapInsert(@, "conferenceDataVersion", IntToString(v))]

support_attachments(self, support) ==
    [self EXCEPT !.request.params =
        MapInsert(@, "supportAttachments", BoolToString(support))]

\* set_max_attendees writing the key of the pagination method
set_max_attendees_as_max_results(self, v) ==
    [self EXCEPT !.request.params = MapInsert(@, "maxResults", IntToString(v))]

set_max_attendees(self, v) ==
    [self EXCEPT !.request.params = MapInsert(@, "maxAttendees", IntToString(v))]

(***************************************************************************)
(* impl CalendarEventsClient<EventDeleteMode>                              *)
(***************************************************************************)
\* send_updates writing the parameter into the URL
send_updates_in_url(self, send) ==
    [self EXCEPT !.request.url = @ \o "?sendUpdates=" \o send]

send_updates(self, send) ==
    [self EXCEPT !.request.params = MapInsert(@, "sendUpdates", send)]

(***************************************************************************)
(* serde_json::to_string(&self.event): Option<EventRequest>, untagged.     *)
(* A JSON object is a function from its keys; None serializes to null.     *)
(***************************************************************************)
\* #[serde(rename_all = "camelCase")], and rename = "iCalUID" on ical_uid
WireName(field) ==
    CASE field = "anyone_can_add_self" -> "anyoneCanAddSelf"
      [] field = "birthday_properties" -> "birthdayProperties"
      [] field = "color_id" -> "colorId"
      [] field = "conference_data" -> "conferenceData"
      [] field = "event_type" -> "eventType"
      [] field = "extended_properties" -> "extendedProperties"
      [] field = "focus_time_properties" -> "focusTimeProperties"
      [] field = "guests_can_invite_others" -> "guestsCanInviteOthers"
      [] field = "guests_can_modify" -> "guestsCanModify"
      [] field = "guests_can_see_other_guests" -> "guestsCanSeeOtherGuests"
      [] field = "ical_uid" -> "iCalUID"
      [] field = "out_of_office_properties" -> "outOfOfficeProperties"
      [] field = "working_location_properties" -> "workingLocationProperties"
      [] OTHER -> field

\* fields without skip_serializing_if: CreateEventRequest's start and end
AlwaysSerialized(variant) == IF variant = "Create" THEN {"start", "end"} ELSE {}

\* SerializedFields with no skip_serializing_if on the Vec fields: attendees and
\* recurrence are written even when they are empty
SerializedFields_vecs_always(variant, req) ==
    { f \in DOMAIN req :
        \/ f \in AlwaysSerialized(variant)
        \/ f \in {"attendees", "recurrence"}
        \/ req[f] # << >> }

\* SerializedFields with `recurrence` lacking its skip_serializing_if
SerializedFields_recurrence_always(variant, req) ==
    { f \in DOMAIN req :
        \/ f \in AlwaysSerialized(variant)
        \/ f = "recurrence"
        \/ req[f] # << >> }

\* skip_serializing_if = "Option::is_none" / "Vec::is_empty"
SerializedFields(variant, req) ==
    {f \in DOMAIN req : f \in AlwaysSerialized(variant) \/ req[f] # << >>}

\* the value written for a field: an Option's content, a Vec as it is
WireValue(variant, req, f) ==
    IF f \in AlwaysSerialized(variant) THEN req[f]
    ELSE IF f \in {"attendees", "recurrence"} THEN req[f]
    ELSE Unwrap(req[f])

to_string(ev) ==
    IF ev = None THEN "null"
    ELSE LET variant == Unwrap(ev).variant
             req == Unwrap(ev).req
             fields == SerializedFields(variant, req)
         IN [k \in {WireName(f) : f \in fields} |->
                WireValue(variant, req, CHOOSE f \in fields : WireName(f) = k)]

(***************************************************************************)
(* Results and HTTP.                                                       *)
(***************************************************************************)
Ok(v) == [ok |-> TRUE, value |-> v]
\* an anyhow::Error: its message and, when it wraps another error, which
Err(msg, inner) == [ok |-> FALSE, message |-> msg, inner |-> inner]

\* StatusCode::is_success
is_success(status) == status >= 200 /\ status < 300

\* Display of StatusCode: the number and the canonical reason
StatusDisplay(status) ==
    IntToString(status) \o
      ( CASE status = 200 -> " OK"
          [] status = 204 -> " No Content"
          [] status = 400 -> " Bad Request"
          [] status = 401 -> " Unauthorized"
          [] status = 404 -> " Not Found"
          [] status = 500 -> " Internal Server Error"
          [] OTHER -> "" )

\* what send().await yields: a transport error, or a response with a status and
\* a body; text is None when the body cannot be read, json is None when the
\* body is not JSON of the expected shape
TransportError == [kind |-> "error", cause |-> "error sending request"]
Response(status, text, json) ==
    [kind |-> "response", status |-> status, text |-> text, json |-> json]

TokenUrl == "https://oauth2.googleapis.com/token"

\* what the token endpoint may answer to a refresh
RefreshBodies ==
    { [access_token |-> "at1", expires_in |-> 2, token_type |-> "Bearer",
       scope |-> "calendar"],
      [access_token |-> "at1", expires_in |-> 2, token_type |-> "Bearer",
       scope |-> "calendar", refresh_token |-> "rt1"],
      [access_token |-> "at2", expires_in |-> 0, refresh_token |-> "rt2"],
      EmptyMap }
RefreshResponses ==
    {TransportError}
      \cup {Response(200, Some("{..}"), Some(b)) : b \in RefreshBodies}
      \cup { Response(200, Some("<html>"), None),
             Response(400, Some("invalid_grant"), None),
             Response(401, None, None) }

\* what the calendar service may answer to a resource call
ResourceResponses ==
    { TransportError,
      Response(200, Some("{..}"), Some("resource")),
      Response(200, Some(""), None),
      Response(404, Some("Not Found"), None),
      Response(500, None, None) }

\* json[key].as_str().unwrap_or_default().to_string()
str_or_default(json, key) == IF key \in DOMAIN json THEN json[key] ELSE ""
\* i64_or_zero reading a key the response never has: always the default
i64_or_zero_missing_key(json, key) == 0

\* json[key].as_i64().unwrap_or(0)
i64_or_zero(json, key) == IF key \in DOMAIN json THEN json[key] ELSE 0

(***************************************************************************)
(* auth: refresh_acces_token                                               *)
(***************************************************************************)
\* the form POSTed to the token endpoint
refresh_form(client_credentials) ==
    [ url |-> TokenUrl, method |-> "POST",
      form |-> [ client_id |-> client_credentials.client_id,
                 client_secret |-> client_credentials.client_secret,
                 refresh_token |-> client_credentials.refresh_token,
                 grant_type |-> "refresh_token" ] ]

\* rotated_refresh_token without rotation: the held token is always kept
rotated_refresh_token_kept(client_credentials, json) == client_credentials.refresh_token

\* rotated_refresh_token reading the access token's key
rotated_refresh_token_from_access_token(client_credentials, json) ==
    IF "access_token" \in DOMAIN json
    THEN json["access_token"]
    ELSE client_credentials.refresh_token

\* a rotated refresh token is taken from the response, otherwise the held one
rotated_refresh_token(client_credentials, json) ==
    IF "refresh_token" \in DOMAIN json
    THEN json["refresh_token"]
    ELSE client_credentials.refresh_token

\* refresh_acces_token without the status test: every answer is read leniently
\* as a token, so an error answer yields a token of defaults
refresh_acces_token_any_status(client_credentials, res) ==
    IF res.kind = "error"
    THEN Err("Request error: " \o res.cause, "none")
    ELSE LET json == IF res.json = None THEN EmptyMap ELSE Unwrap(res.json) IN
         Ok([ token_type |-> str_or_default(json, "token_type"),
              access_token |-> str_or_default(json, "access_token"),
              expires_in |-> i64_or_zero(json, "expires_in"),
              refresh_token |-> rotated_refresh_token(client_credentials, json),
              refresh_token_expires_in |-> 0,
              scope |-> str_or_default(json, "scope") ])

\* refresh_acces_token reading the refresh token as it reads the other fields
\* (`json["refresh_token"].as_str().unwrap_or_default()`): an answer without
\* one yields the empty string
refresh_acces_token_defaulted_refresh_token(client_credentials, res) ==
    IF res.kind = "error"
    THEN Err("Request error: " \o res.cause, "none")
    ELSE IF is_success(res.status)
    THEN IF res.json = None
         THEN Err("error decoding response body", "reqwest::Error")
         ELSE LET json == Unwrap(res.json) IN
              Ok([ token_type |-> str_or_default(json, "token_type"),
                   access_token |-> str_or_default(json, "access_token"),
                   expires_in |-> i64_or_zero(json, "expires_in"),
                   refresh_token |-> str_or_default(json, "refresh_token"),
                   refresh_token_expires_in |-> 0,
                   scope |-> str_or_default(json, "scope") ])
    ELSE Err("Failed to refresh token: " \o StatusDisplay(res.status) \o " - " \o
               (IF res.text = None THEN "Unable to read error body"
                ELSE Unwrap(res.text)),
             "none")

\* the match on the response: Ok(AccessToken) only for a 2xx JSON body
refresh_acces_token(client_credentials, res) ==
    IF res.kind = "error"
    THEN Err("Request error: " \o res.cause, "none")
    ELSE IF is_success(res.status)
    THEN IF res.json = None
         THEN Err("error decoding response body", "reqwest::Error")
         ELSE LET json == Unwrap(res.json) IN
              Ok([ token_type |-> str_or_default(json, "token_type"),
                   access_token |-> str_or_default(json, "access_token"),
                   expires_in |-> i64_or_zero(json, "expires_in"),
                   refresh_token |-> rotated_refresh_token(client_credentials, json),
                   refresh_token_expires_in |-> 0,
                   scope |-> str_or_default(json, "scope") ])
    ELSE Err("Failed to refresh token: " \o StatusDisplay(res.status) \o " - " \o
               (IF res.text = None THEN "Unable to read error body"
                ELSE Unwrap(res.text)),
             "none")

(***************************************************************************)
(* auth: get_oauth_url                                                     *)
(***************************************************************************)
\* the longest scope list get_oauth_url is tried with
MaxScopes == 2

\* enum Scope, as far as the documentation of get_oauth_url names it
Scopes == {"CalendarReadOnly", "CalendarEvents", "TasksReadOnly"}

\* Scope::as_str
Scope_as_str(s) ==
    CASE s = "CalendarReadOnly" -> "https://www.googleapis.com/auth/calendar.readonly"
      [] s = "CalendarEvents" -> "https://www.googleapis.com/auth/calendar.events"
      [] s = "TasksReadOnly" -> "https://www.googleapis.com/auth/tasks.readonly"

\* the Vec<Scope> arguments: every list of at most MaxScopes scopes
ScopeLists == UNION { [1..n -> Scopes] : n \in 0..MaxScopes }

\* [&str]::join(sep)
RECURSIVE join(_, _)
join(strs, sep) ==
    IF strs = << >> THEN ""
    ELSE IF Len(strs) = 1 THEN strs[1]
    ELSE strs[1] \o sep \o join(Tail(strs), sep)

\* get_oauth_url joining the scopes with a comma
get_oauth_url_comma_joined(client_id, redirect_uri, scopes) ==
    "https://accounts.google.com/o/oauth2/auth"
      \o "?client_id=" \o client_id
      \o "&redirect_uri=" \o redirect_uri
      \o "&response_type=code&scope="
      \o join([i \in 1..Len(scopes) |-> Scope_as_str(scopes[i])], ",")
      \o "&access_type=offline&prompt=consent"

\* the format! of get_oauth_url: nothing is percent-encoded
get_oauth_url(client_id, redirect_uri, scopes) ==
    "https://accounts.google.com/o/oauth2/auth"
      \o "?client_id=" \o client_id
      \o "&redirect_uri=" \o redirect_uri
      \o "&response_type=code&scope="
      \o join([i \in 1..Len(scopes) |-> Scope_as_str(scopes[i])], " ")
      \o "&access_type=offline&prompt=consent"

(***************************************************************************)
(* auth: get_acces_token                                                   *)
(***************************************************************************)
\* the authorization codes and the client settings the exchange is tried with
Codes == {"code-a", "code-b"}
ClientIds == {"client-id", "other-client-id"}
RedirectUris == {"https://app.example/callback", "https://app.example/other"}

\* the form POSTed to the token endpoint to exchange a code
exchange_form(code, client_secret, client_id, redirect_uri) ==
    [ url |-> TokenUrl, method |-> "POST",
      form |-> [ code |-> code, client_id |-> client_id,
                 client_secret |-> client_secret, redirect_uri |-> redirect_uri,
                 grant_type |-> "authorization_code" ] ]

\* the JSON bodies a 2xx answer to the exchange is tried with: every field of
\* AccessToken, the provider's own key for the refresh token's lifetime, some
\* fields, none
ExchangeBodies ==
    { [token_type |-> "Bearer", access_token |-> "at1", expires_in |-> 2,
       refresh_token |-> "rt1", refresh_token_expires_in |-> 7, scope |-> "calendar"],
      [token_type |-> "Bearer", access_token |-> "at1", expires_in |-> 2,
       refresh_token |-> "rt1", x_refresh_token_expires_in |-> 7,
       scope |-> "calendar"],
      [access_token |-> "at2", expires_in |-> 1],
      [scope |-> "calendar", refresh_token |-> "rt2"],
      EmptyMap }

\* what the token endpoint may answer to the exchange
ExchangeResponses ==
    {TransportError}
      \cup {Response(200, Some("{..}"), Some(b)) : b \in ExchangeBodies}
      \cup { Response(200, Some("<html>"), None),
             Response(400, Some("invalid_grant"), None),
             Response(401, Some("unauthorized_client"), None),
             Response(500, None, None) }

\* serde_json::from_value::<AccessToken>: the derived Deserialize wants every
\* field of the struct
AccessToken_from_value(json) ==
    IF { "token_type", "access_token", "expires_in", "refresh_token",
         "refresh_token_expires_in", "scope" } \subseteq DOMAIN json
    THEN Some([ token_type |-> json["token_type"],
                access_token |-> json["access_token"],
                expires_in |-> json["expires_in"],
                refresh_token |-> json["refresh_token"],
                refresh_token_expires_in |-> json["refresh_token_expires_in"],
                scope |-> json["scope"] ])
    ELSE None

\* get_acces_token with `serde_json::from_value(json)?`: a body that lacks a
\* field of AccessToken is an error
get_acces_token_strict(res) ==
    IF res.kind = "error"
    THEN Err(res.cause, "reqwest::Error")
    ELSE IF is_success(res.status)
    THEN IF res.json = None
         THEN Err("error decoding response body", "reqwest::Error")
         ELSE IF AccessToken_from_value(Unwrap(res.json)) = None
         THEN Err("missing field", "serde_json::Error")
         ELSE Ok(Unwrap(AccessToken_from_value(Unwrap(res.json))))
    ELSE Err("Failed to retrieve access token: " \o StatusDisplay(res.status)
               \o " - " \o
               (IF res.text = None THEN "Unable to read error body"
                ELSE Unwrap(res.text)),
             "none")

\* the match on the response: Ok(AccessToken) only for a 2xx JSON body, read
\* field by field when it does not deserialize as a whole
get_acces_token(res) ==
    IF res.kind = "error"
    THEN Err(res.cause, "reqwest::Error")
    ELSE IF is_success(res.status)
    THEN IF res.json = None
         THEN Err("error decoding response body", "reqwest::Error")
         ELSE LET json == Unwrap(res.json) IN
              IF AccessToken_from_value(json) # None
              THEN Ok(Unwrap(AccessToken_from_value(json)))
              ELSE Ok([ token_type |-> str_or_default(json, "token_type"),
                        access_token |-> str_or_default(json, "access_token"),
                        expires_in |-> i64_or_zero(json, "expires_in"),
                        refresh_token |-> str_or_default(json, "refresh_token"),
                        refresh_token_expires_in |->
                            i64_or_zero(json, "x_refresh_token_expires_in"),
                        scope |-> str_or_default(json, "scope") ])
    ELSE Err("Failed to retrieve access token: " \o StatusDisplay(res.status)
               \o " - " \o
               (IF res.text = None THEN "Unable to read error body"
                ELSE Unwrap(res.text)),
             "none")

(***************************************************************************)
(* auth::client: the GoogleClient and its token-freshness check.           *)
(***************************************************************************)
\* GoogleClient::new(client_credentials, access_token) at time t: expires_at
\* is fixed when the token is stored
GoogleClient_new(client_credentials, access_token, t) ==
    [ client_credentials |-> client_credentials,
      access_token |-> access_token,
      expires_at |-> t + access_token.expires_in ]

\* is_expired that trusts no token: every check refreshes
is_expired_always(c, t) == TRUE

\* the expiry predicate: the stored expires_at has passed
is_expired(c, t) == t >= c.expires_at

\* a refreshed token replaces the stored one and the stored refresh token
store_token(c, token, t) ==
    [ client_credentials |->
          [c.client_credentials EXCEPT !.refresh_token = token.refresh_token],
      access_token |-> token,
      expires_at |-> t + token.expires_in ]

\* what refresh_access_token_check returns for the refresh's result
check_result(r) == IF r.ok THEN Ok("unit") ELSE r

InitialCredentials ==
    [ client_id |-> "client-id", client_secret |-> "client-secret",
      redirect_uri |-> "https://app.example/callback", refresh_token |-> "rt0" ]
InitialToken ==
    [ token_type |-> "Bearer", access_token |-> "at0", expires_in |-> 1,
      refresh_token |-> "rt0", refresh_token_expires_in |-> 0,
      scope |-> "calendar" ]

(***************************************************************************)
(* Dispatch: make_request and make_delete_request.                         *)
(***************************************************************************)
\* make_request_check without the `?`: the check's result is dropped
make_request_check_dropped(r) == "send"

\* `refresh_access_token_check().await?` in make_request: an Err returns at
\* once, Ok goes on to the match on the method
make_request_check(r) == IF r.ok THEN "send" ELSE "return"

\* `refresh_access_token_check().await?` in make_delete_request
make_delete_request_check(r) == IF r.ok THEN "send" ELSE "return"

\* make_request_call whose POST arm leaves out `.body(..)`
make_request_call_post_without_body(req, ev) ==
    CASE req.method = "GET" ->
           Some([method |-> "GET", url |-> req.url, query |-> req.params,
                 body |-> None])
      [] req.method = "POST" ->
           Some([method |-> "POST", url |-> req.url, query |-> req.params,
                 body |-> None])
      [] req.method = "PATCH" ->
           Some([method |-> "PATCH", url |-> req.url, query |-> req.params,
                 body |-> Some(to_string(ev))])
      [] OTHER -> None

\* make_request_call whose match has no arm for PATCH
make_request_call_without_patch(req, ev) ==
    CASE req.method = "GET" ->
           Some([method |-> "GET", url |-> req.url, query |-> req.params,
                 body |-> None])
      [] req.method = "POST" ->
           Some([method |-> "POST", url |-> req.url, query |-> req.params,
                 body |-> Some(to_string(ev))])
      [] OTHER -> None

\* the HTTP call make_request builds for the method; None for any other method
make_request_call(req, ev) ==
    CASE req.method = "GET" ->
           Some([method |-> "GET", url |-> req.url, query |-> req.params,
                 body |-> None])
      [] req.method = "POST" ->
           Some([method |-> "POST", url |-> req.url, query |-> req.params,
                 body |-> Some(to_string(ev))])
      [] req.method = "PATCH" ->
           Some([method |-> "PATCH", url |-> req.url, query |-> req.params,
                 body |-> Some(to_string(ev))])
      [] OTHER -> None

\* the HTTP call make_delete_request builds
make_delete_request_call(req) ==
    Some([method |-> "DELETE", url |-> req.url, query |-> req.params, body |-> None])

\* make_request that moves the query parameters out of the builder
\* (`std::mem::take(&mut self.request.params)`) to hand them to the call
make_request_take(self) == [self EXCEPT !.request.params = EmptyMap]

\* make_request takes `&mut self` and reads self.request and self.event by
\* reference: the builder it leaves is the builder it found
make_request_borrow(self) == self

\* make_delete_request likewise
make_delete_request_borrow(self) == self

\* make_request_result as request()'s doc comment has it: Ok(None) when the
\* request was unsuccessful
make_request_result_none_on_failure(method, res) ==
    IF res.kind = "error"
    THEN Err(res.cause, "reqwest::Error")
    ELSE IF is_success(res.status) /\ res.json # None
    THEN Ok(Some(Unwrap(res.json)))
    ELSE Ok(None)

\* make_request_result with `res.text().await?`: a body that cannot be read
\* replaces the error on the status by the error of the read
make_request_result_text_propagated(method, res) ==
    IF res.kind = "error"
    THEN Err(res.cause, "reqwest::Error")
    ELSE IF is_success(res.status)
    THEN IF res.json = None
         THEN Err("error decoding response body", "reqwest::Error")
         ELSE Ok(Some(Unwrap(res.json)))
    ELSE IF res.text = None
    THEN Err("error decoding response body", "reqwest::Error")
    ELSE Err(method \o " request failed with status " \o StatusDisplay(res.status)
               \o ": " \o Unwrap(res.text),
             "none")

\* make_request_result with the send error turned into a message
\* (`.map_err(|e| anyhow!("{e}"))`): the reqwest::Error is not carried
make_request_result_transport_as_message(method, res) ==
    IF res.kind = "error"
    THEN Err(res.cause, "none")
    ELSE IF is_success(res.status)
    THEN IF res.json = None
         THEN Err("error decoding response body", "reqwest::Error")
         ELSE Ok(Some(Unwrap(res.json)))
    ELSE Err(method \o " request failed with status " \o StatusDisplay(res.status)
               \o ": " \o (IF res.text = None THEN "" ELSE Unwrap(res.text)),
             "none")

\* what make_request returns for the answer to its call
make_request_result(method, res) ==
    IF res.kind = "error"
    THEN Err(res.cause, "reqwest::Error")
    ELSE IF is_success(res.status)
    THEN IF res.json = None
         THEN Err("error decoding response body", "reqwest::Error")
         ELSE Ok(Some(Unwrap(res.json)))
    ELSE Err(method \o " request failed with status " \o StatusDisplay(res.status)
               \o ": " \o (IF res.text = None THEN "" ELSE Unwrap(res.text)),
             "none")

\* make_delete_request_result without the status test: every answer is Ok(true)
make_delete_request_result_unchecked(res) ==
    IF res.kind = "error"
    THEN Err(res.cause, "reqwest::Error")
    ELSE Ok(TRUE)

\* what make_delete_request returns for the answer to its call
make_delete_request_result(res) ==
    IF res.kind = "error"
    THEN Err(res.cause, "reqwest::Error")
    ELSE IF is_success(res.status)
    THEN Ok(TRUE)
    ELSE Err("Delete request failed with status " \o StatusDisplay(res.status)
               \o ": " \o (IF res.text = None THEN "" ELSE Unwrap(res.text)),
             "none")

\* CalendarEventsClient<EventDeleteMode>::request: the match on the result
DeleteMode_request_result(r) ==
    IF r.ok
    THEN IF r.value THEN Ok("unit") ELSE Err("Failed to delete event", "none")
    ELSE r

(***************************************************************************)
(* The configuration methods of each mode, by name: what each accepts and  *)
(* what it does to the builder.                                            *)
(***************************************************************************)
ListMethods ==
    { "max_results", "page_token", "time_min", "time_max", "event_type", "order_by",
      "max_attendees", "single_events", "show_hidden_invitations", "query" }

ListInputs(name) ==
    CASE name \in {"max_results", "max_attendees"} -> Numbers
      [] name \in {"page_token", "query"} -> Strings
      [] name \in {"time_min", "time_max"} -> DateTimes
      [] name = "event_type" -> EventType
      [] name = "order_by" -> EventOrderBy
      [] name \in {"single_events", "show_hidden_invitations"} -> BOOLEAN

ListCall(self, name, v) ==
    CASE name = "max_results" -> max_results(self, v)
      [] name = "page_token" -> page_token(self, v)
      [] name = "time_min" -> time_min(self, v)
      [] name = "time_max" -> time_max(self, v)
      [] name = "event_type" -> event_type(self, v)
      [] name = "order_by" -> order_by(self, v)
      [] name = "max_attendees" -> max_attendees(self, v)
      [] name = "single_events" -> single_events(self, v)
      [] name = "show_hidden_invitations" -> show_hidden_invitations(self, v)
      [] name = "query" -> query(self, v)

InsertMethods ==
    { "set_summary", "set_description", "set_location", "set_attendees", "set_type",
      "set_birtday_properties", "set_color_id", "set_guests_can_invite_others",
      "set_guests_can_modify", "set_guests_can_see_other_guests", "set_id",
      "set_ical_uid", "set_out_of_office_properties", "set_recurrence",
      "set_transparency", "set_reminders", "set_extended_properties" }

InsertInputs(name) ==
    CASE name \in { "set_summary", "set_description", "set_location", "set_color_id",
                    "set_id", "set_ical_uid", "set_transparency" } -> Strings
      [] name = "set_attendees" -> AttendeeLists
      [] name = "set_type" -> PayloadEventTypes
      [] name = "set_birtday_properties" -> BirthdayPropertiesValues
      [] name \in { "set_guests_can_invite_others", "set_guests_can_modify",
                    "set_guests_can_see_other_guests" } -> BOOLEAN
      [] name = "set_out_of_office_properties" -> OutOfOfficePropertiesValues
      [] name = "set_recurrence" -> RecurrenceLists
      [] name = "set_reminders" -> ReminderValues
      [] name = "set_extended_properties" -> ExtendedPropertiesValues

InsertCall(self, name, v) ==
    CASE name = "set_summary" -> Insert_set_summary(self, v)
      [] name = "set_description" -> Insert_set_description(self, v)
      [] name = "set_location" -> Insert_set_location(self, v)
      [] name = "set_attendees" -> Insert_set_attendees(self, v)
      [] name = "set_type" -> Insert_set_type(self, v)
      [] name = "set_birtday_properties" -> Insert_set_birtday_properties(self, v)
      [] name = "set_color_id" -> Insert_set_color_id(self, v)
      [] name = "set_guests_can_invite_others" ->
           Insert_set_guests_can_invite_others(self, v)
      [] name = "set_guests_can_modify" -> Insert_set_guests_can_modify(self, v)
      [] name = "set_guests_can_see_other_guests" ->
           Insert_set_guests_can_see_other_guests(self, v)
      [] name = "set_id" -> Insert_set_id(self, v)
      [] name = "set_ical_uid" -> Insert_set_ical_uid(self, v)
      [] name = "set_out_of_office_properties" ->
           Insert_set_out_of_office_properties(self, v)
      [] name = "set_recurrence" -> Insert_set_recurrence(self, v)
      [] name = "set_transparency" -> Insert_set_transparency(self, v)
      [] name = "set_reminders" -> Insert_set_reminders(self, v)
      [] name = "set_extended_properties" -> Insert_set_extended_properties(self, v)

PatchPayloadMethods ==
    { "set_end", "set_start", "set_summary", "set_description", "set_attendees",
      "set_color_id", "set_event_type", "set_guests_can_invite_others",
      "set_guests_can_modify", "set_guests_can_see_other_guests", "set_id",
      "set_location", "set_out_of_office_properties", "set_recurrence",
      "set_reminders", "set_sequence", "set_source", "set_status",
      "set_transparancy", "set_visibility", "set_working_location_properties",
      "set_extended_properties" }

PatchQueryMethods ==
    { "set_send_updates", "set_conference_data_version", "support_attachments",
      "set_max_attendees" }

PatchMethods == PatchPayloadMethods \cup PatchQueryMethods

PatchInputs(name) ==
    CASE name \in {"set_end", "set_start"} -> EventDateTimes
      [] name \in { "set_summary", "set_description", "set_color_id", "set_id",
                    "set_location", "set_status", "set_transparancy",
                    "set_visibility" } -> Strings
      [] name = "set_attendees" -> AttendeeLists
      [] name = "set_event_type" -> PayloadEventTypes
      [] name \in { "set_guests_can_invite_others", "set_guests_can_modify",
                    "set_guests_can_see_other_guests", "support_attachments" } -> BOOLEAN
      [] name = "set_out_of_office_properties" -> OutOfOfficePropertiesValues
      [] name = "set_recurrence" -> RecurrenceLists
      [] name = "set_reminders" -> ReminderValues
      [] name \in {"set_sequence", "set_conference_data_version"} -> SmallNumbers
      [] name = "set_source" -> EventSourceValues
      [] name = "set_working_location_properties" -> WorkingLocationPropertiesValues
      [] name = "set_extended_properties" -> ExtendedPropertiesValues
      [] name = "set_send_updates" -> SendUpdatesValues
      [] name = "set_max_attendees" -> Numbers

PatchCall(self, name, v) ==
    CASE name = "set_end" -> Patch_set_end(self, v)
      [] name = "set_start" -> Patch_set_start(self, v)
      [] name = "set_summary" -> Patch_set_summary(self, v)
      [] name = "set_description" -> Patch_set_description(self, v)
      [] name = "set_attendees" -> Patch_set_attendees(self, v)
      [] name = "set_color_id" -> Patch_set_color_id(self, v)
      [] name = "set_event_type" -> Patch_set_event_type(self, v)
      [] name = "set_guests_can_invite_others" ->
           Patch_set_guests_can_invite_others(self, v)
      [] name = "set_guests_can_modify" -> Patch_set_guests_can_modify(self, v)
      [] name = "set_guests_can_see_other_guests" ->
           Patch_set_guests_can_see_other_guests(self, v)
      [] name = "set_id" -> Patch_set_id(self, v)
      [] name = "set_location" -> Patch_set_location(self, v)
      [] name = "set_out_of_office_properties" ->
           Patch_set_out_of_office_properties(self, v)
      [] name = "set_recurrence" -> Patch_set_recurrence(self, v)
      [] name = "set_reminders" -> Patch_set_reminders(self, v)
      [] name = "set_sequence" -> Patch_set_sequence(self, v)
      [] name = "set_source" -> Patch_set_source(self, v)
      [] name = "set_status" -> Patch_set_status(self, v)
      [] name = "set_transparancy" -> Patch_set_transparancy(self, v)
      [] name = "set_visibility" -> Patch_set_visibility(self, v)
      [] name = "set_working_location_properties" ->
           Patch_set_working_location_properties(self, v)
      [] name = "set_extended_properties" -> Patch_set_extended_properties(self, v)
      [] name = "set_send_updates" -> set_send_updates(self, v)
      [] name = "set_conference_data_version" -> set_conference_data_version(self, v)
      [] name = "support_attachments" -> support_attachments(self, v)
      [] name = "set_max_attendees" -> set_max_attendees(self, v)

DeleteMethods == {"send_updates"}
DeleteInputs(name) == SendUpdatesValues
DeleteCall(self, name, v) == send_updates(self, v)

(***************************************************************************)
(* The initial state: a client built from an authorization at time 0, and  *)
(* a builder just made from it.                                            *)
(***************************************************************************)
Init ==
    /\ mode = CalendarEventsClient_new.mode
    /\ request = CalendarEventsClient_new.request
    /\ event = CalendarEventsClient_new.event
    /\ client = GoogleClient_new(InitialCredentials, InitialToken, 0)
    /\ storedAt = 0
    /\ attempts = 0
    /\ rotated = None
    /\ now = 0
    /\ pc = "idle"
    /\ net = None
    /\ path = "none"
    /\ calls = << >>
    /\ outcome = None
    /\ check = None
    /\ refreshed = None
    /\ answer = None
    /\ pre = GoogleClient_new(InitialCredentials, InitialToken, 0)
    /\ given = None
    /\ written = EmptyMap
    /\ sent = << >>
    /\ ops = 0

\* the builder becomes b
Become(b) ==
    /\ mode' = b.mode
    /\ request' = b.request
    /\ event' = b.event

\* the record of the last request() is dropped
Forget ==
    /\ path' = "none"
    /\ calls' = << >>
    /\ outcome' = None
    /\ check' = None
    /\ refreshed' = None
    /\ answer' = None
    /\ pre' = client

(***************************************************************************)
(* Builder steps.  They need the builder at rest: request() borrows it     *)
(* mutably until it returns.                                               *)
(***************************************************************************)
\* the builder is dropped, and what its last request() returned with it, and a
\* new one is made from the same client
New ==
    /\ pc = "idle"
    /\ mode # "Uninitialized"
    /\ Become(CalendarEventsClient_new)
    /\ Forget
    /\ given' = None
    /\ written' = EmptyMap
    /\ sent' = << >>
    /\ UNCHANGED << clientVars, pc, net, ops >>

\* an entry transition that dispatches at once the request it has seeded
Enter_dispatching(args, b) ==
    /\ pc = "idle"
    /\ mode = "Uninitialized"
    /\ Become(b)
    /\ given' = Some(args)
    /\ calls' = Append(calls, [method |-> b.request.method, url |-> b.request.url,
                               query |-> b.request.params, body |-> None])
    /\ UNCHANGED << clientVars, path, outcome, check, refreshed, answer, pre, pc,
                    net, written, sent, ops >>

\* an entry transition, called with args, turns the new builder into b
Enter(args, b) ==
    /\ pc = "idle"
    /\ mode = "Uninitialized"
    /\ Become(b)
    /\ given' = Some(args)
    /\ UNCHANGED << clientVars, runVars, pc, net, written, sent, ops >>

GetEvents ==
    \E c \in CalendarIds :
        Enter([calendar_id |-> c], get_events(Self, c))

InsertEvent ==
    \E c \in CalendarIds, start \in StartDateTimes, end \in EndDateTimes :
        Enter([calendar_id |-> c, start |-> start, end |-> end],
              insert_event(Self, c, start, end))

PatchEvent ==
    \E c \in CalendarIds, e \in EventIds :
        Enter([calendar_id |-> c, event_id |-> e], patch_event(Self, c, e))

DeleteEvent ==
    \E c \in CalendarIds, e \in EventIds :
        Enter([calendar_id |-> c, event_id |-> e], delete_event(Self, c, e))

\* configuration method name of mode m, called with v, turns the builder into b;
\* what the builder's last request() returned is no longer kept
ConfigureWithin(bound, m, name, v, b) ==
    /\ pc = "idle"
    /\ mode = m
    /\ ops < bound
    /\ Become(b)
    /\ Forget
    /\ written' =
          MapInsert(written, name,
                    [ last |-> v,
                      before |-> IF name \in DOMAIN written
                                 THEN Some(written[name].last)
                                 ELSE None ])
    /\ sent' = << >>
    /\ ops' = ops + 1
    /\ UNCHANGED << clientVars, pc, net, given >>

Configure(m, name, v, b) == ConfigureWithin(MaxOps, m, name, v, b)

ListConfigure ==
    \E name \in ListMethods : \E v \in ListInputs(name) :
        Configure("EventListMode", name, v, ListCall(Self, name, v))

InsertConfigure ==
    \E name \in InsertMethods : \E v \in InsertInputs(name) :
        Configure("EventInsertMode", name, v, InsertCall(Self, name, v))

PatchConfigure ==
    \E name \in PatchMethods : \E v \in PatchInputs(name) :
        Configure("EventPatchMode", name, v, PatchCall(Self, name, v))

DeleteConfigure ==
    \E name \in DeleteMethods : \E v \in DeleteInputs(name) :
        Configure("EventDeleteMode", name, v, DeleteCall(Self, name, v))

(***************************************************************************)
(* request(): one call runs from BeginRequest to the step that sets        *)
(* outcome, through the await points of the dispatch function.             *)
(***************************************************************************)
BeginRequest(m, p) ==
    /\ pc = "idle"
    /\ mode = m
    /\ ops < MaxOps
    /\ pc' = "check"
    /\ path' = p
    /\ net' = None
    /\ calls' = << >>
    /\ outcome' = None
    /\ check' = None
    /\ refreshed' = None
    /\ answer' = None
    /\ pre' = client
    /\ ops' = ops + 1
    /\ UNCHANGED << builderVars, clientVars, given, written, sent >>

ListRequest == BeginRequest("EventListMode", "make_request")
InsertRequest == BeginRequest("EventInsertMode", "make_request")
PatchRequest == BeginRequest("EventPatchMode", "make_request")
DeleteRequest == BeginRequest("EventDeleteMode", "make_delete_request")

\* request() returns r (through DeleteMode's match on the delete path)
Return(r) ==
    /\ pc' = "idle"
    /\ net' = None
    /\ outcome' =
          Some(IF path = "make_delete_request" THEN DeleteMode_request_result(r) ELSE r)

\* Send that sends its call again: two resource calls in one request()
Send_again ==
    LET call == IF path = "make_delete_request"
                THEN make_delete_request_call(request)
                ELSE make_request_call(request, event)
    IN /\ Become(Self)
       /\ IF call = None
          THEN /\ Return(Err("Unsupported HTTP method", "none"))
               /\ UNCHANGED << calls, sent >>
          ELSE /\ pc' = "awaiting"
               /\ net' = call
               /\ calls' = Append(Append(calls, Unwrap(call)), Unwrap(call))
               /\ sent' = Append(Append(sent, Unwrap(call)), Unwrap(call))
               /\ UNCHANGED outcome

\* the dispatch function builds its call from the builder, sends it and awaits
\* the answer; a method it does not know returns Err without a call
Send ==
    LET call == IF path = "make_delete_request"
                THEN make_delete_request_call(request)
                ELSE make_request_call(request, event)
    IN /\ Become(IF path = "make_delete_request"
                 THEN make_delete_request_borrow(Self)
                 ELSE make_request_borrow(Self))
       /\ IF call = None
          THEN /\ Return(Err("Unsupported HTTP method", "none"))
               /\ UNCHANGED << calls, sent >>
          ELSE /\ pc' = "awaiting"
               /\ net' = call
               /\ calls' = Append(calls, Unwrap(call))
               /\ sent' = Append(sent, Unwrap(call))
               /\ UNCHANGED outcome

\* the token check returned r to the dispatch function, which goes on to send
\* or returns the error
Checked(r) ==
    /\ check' = Some(r)
    /\ IF (IF path = "make_delete_request"
           THEN make_delete_request_check(r)
           ELSE make_request_check(r)) = "send"
       THEN Send
       ELSE Return(r) /\ UNCHANGED << calls, sent, builderVars >>

\* refresh_access_token_check up to its await: a token that has not expired
\* passes, an expired one sends the refresh call
RefreshAccessTokenCheck ==
    /\ pc = "check"
    /\ IF is_expired(client, now)
       THEN /\ pc' = "refreshing"
            /\ net' = Some(refresh_form(client.client_credentials))
            /\ calls' = Append(calls, refresh_form(client.client_credentials))
            /\ attempts' = attempts + 1
            /\ UNCHANGED << outcome, check, sent, builderVars >>
       ELSE Checked(Ok("unit")) /\ UNCHANGED attempts
    /\ UNCHANGED << client, storedAt, rotated, now, path, refreshed, answer, pre,
                    given, written, ops >>

\* the refresh call is answered: a token is stored, an error is handed on
RefreshAnswered ==
    /\ pc = "refreshing"
    /\ \E res \in RefreshResponses :
          LET r == refresh_acces_token(client.client_credentials, res) IN
          /\ refreshed' = Some(res)
          /\ client' = IF r.ok THEN store_token(client, r.value, now) ELSE client
          /\ storedAt' = IF r.ok THEN now ELSE storedAt
          /\ attempts' = IF r.ok THEN 0 ELSE attempts
          /\ rotated' = IF /\ res.kind = "response"
                           /\ is_success(res.status)
                           /\ res.json # None
                           /\ "refresh_token" \in DOMAIN Unwrap(res.json)
                        THEN Some(Unwrap(res.json)["refresh_token"])
                        ELSE rotated
          /\ Checked(check_result(r))
    /\ UNCHANGED << now, path, answer, pre, given, written, ops >>

\* Answered that tries again when the resource call has failed: request() goes
\* back to its token check
Answered_retrying ==
    /\ pc = "awaiting"
    /\ \E res \in ResourceResponses :
          /\ answer' = Some(res)
          /\ IF res.kind = "error" \/ ~is_success(res.status)
             THEN pc' = "check" /\ net' = None /\ UNCHANGED outcome
             ELSE Return(IF path = "make_delete_request"
                         THEN make_delete_request_result(res)
                         ELSE make_request_result(request.method, res))
    /\ UNCHANGED << builderVars, clientVars, path, calls, check, refreshed, pre,
                    given, written, sent, ops >>

\* the resource call is answered and request() returns
Answered ==
    /\ pc = "awaiting"
    /\ \E res \in ResourceResponses :
          /\ answer' = Some(res)
          /\ Return(IF path = "make_delete_request"
                    THEN make_delete_request_result(res)
                    ELSE make_request_result(request.method, res))
    /\ UNCHANGED << builderVars, clientVars, path, calls, check, refreshed, pre,
                    given, written, sent, ops >>

\* time passes: before the token check of a request() and while its refresh call
\* is awaited.  No other step reads or writes the clock, so time that passes
\* anywhere else is time that passes before the next check.
Tick ==
    /\ pc \in {"check", "refreshing"}
    /\ now < MaxTime
    /\ now' = now + 1
    /\ UNCHANGED << builderVars, client, storedAt, attempts, rotated, runVars, pc,
                    net, given, written, sent, ops >>

Next ==
    \/ New
    \/ GetEvents
    \/ InsertEvent
    \/ PatchEvent
    \/ DeleteEvent
    \/ ListConfigure
    \/ InsertConfigure
    \/ PatchConfigure
    \/ DeleteConfigure
    \/ ListRequest
    \/ InsertRequest
    \/ PatchRequest
    \/ DeleteRequest
    \/ RefreshAccessTokenCheck
    \/ RefreshAnswered
    \/ Answered
    \/ Tick

Spec == Init /\ [][Next]_vars

(***************************************************************************)
(* A list builder configured by a chain of up to MaxChain methods: only    *)
(* get_events and the configuration methods of EventListMode run.          *)
(***************************************************************************)
ListChain ==
    \E name \in ListMethods : \E v \in ListInputs(name) :
        ConfigureWithin(MaxChain, "EventListMode", name, v, ListCall(Self, name, v))

NextList ==
    \/ GetEvents
    \/ ListChain

SpecList == Init /\ [][NextList]_vars

(***************************************************************************)
(* Properties.                                                             *)
(***************************************************************************)
\* the positions in calls of the calls to the token endpoint
RefreshCalls == {i \in 1..Len(calls) : calls[i].url = TokenUrl}
\* the positions in calls of the calls to a calendar resource
ResourceCalls == {i \in 1..Len(calls) : calls[i].url # TokenUrl}

\* the refresh call of the running (or last) request() got a 2xx JSON answer
RefreshSucceeded ==
    /\ refreshed # None
    /\ Unwrap(refreshed).kind = "response"
    /\ is_success(Unwrap(refreshed).status)
    /\ Unwrap(refreshed).json # None

\* it got a transport error, a non-2xx answer or a body that is not JSON
RefreshFailed == refreshed # None /\ ~RefreshSucceeded

\* the body of the 2xx JSON answer
RefreshJson == Unwrap(Unwrap(refreshed).json)

\* the resource call got a transport error or a non-2xx answer
ResourceFailed ==
    /\ answer # None
    /\ \/ Unwrap(answer).kind = "error"
       \/ ~is_success(Unwrap(answer).status)

ReturnedErr == pc = "idle" /\ outcome # None /\ ~Unwrap(outcome).ok

\* C1: in every mode's request() the token check comes before the resource call:
\* a resource call has been issued only if the check returned Ok, and when the
\* check returned an error request() has returned that very error and no call
\* to the resource URL was issued.
C1_CheckBeforeResourceCall ==
    /\ ResourceCalls # {} => (check # None /\ Unwrap(check).ok)
    /\ (check # None /\ ~Unwrap(check).ok) =>
          /\ ReturnedErr
          /\ outcome = check
          /\ ResourceCalls = {}
          /\ net = None

C1_Witness ==
    /\ mode = "EventInsertMode"
    /\ path = "make_request"
    /\ check # None
    /\ ~Unwrap(check).ok
    /\ ReturnedErr
    /\ Len(calls) = 1
    /\ RefreshCalls = {1}

\* C2: after a refresh that got a 2xx answer, the refresh token held in the
\* stored token and in the stored credentials is the one of the answer when the
\* answer has one, and the one held before the call when it has none.
C2_RefreshTokenRotation ==
    RefreshSucceeded =>
        LET expected == IF "refresh_token" \in DOMAIN RefreshJson
                        THEN RefreshJson["refresh_token"]
                        ELSE pre.client_credentials.refresh_token
        IN /\ client.access_token.refresh_token = expected
           /\ client.client_credentials.refresh_token = expected

C2_Witness ==
    /\ RefreshSucceeded
    /\ "refresh_token" \in DOMAIN RefreshJson
    /\ RefreshJson["refresh_token"] # pre.client_credentials.refresh_token
    /\ client.client_credentials.refresh_token = RefreshJson["refresh_token"]
    /\ client.client_credentials.refresh_token # pre.client_credentials.refresh_token

\* C3: a token check on a token that has not expired issues no call to the token
\* endpoint, returns Ok and leaves the client (credentials, token, expires_at)
\* as it was.
C3_FreshTokenNoRefresh ==
    (check # None /\ now < pre.expires_at) =>
        /\ RefreshCalls = {}
        /\ refreshed = None
        /\ Unwrap(check).ok
        /\ client = pre

C3_Witness ==
    /\ check # None
    /\ now < pre.expires_at
    /\ pc = "idle"
    /\ outcome # None
    /\ Len(calls) = 1
    /\ ResourceCalls = {1}
    /\ client = pre

\* C4: a token check on an expired token issues exactly one refresh call; on a
\* 2xx answer the stored token is the one of the answer and expires_at is the
\* time of storing plus the new expires_in; expires_at always is the time the
\* stored token was stored plus its expires_in, so no later step re-derives it.
C4_ExpiredTokenRefreshedOnce ==
    /\ Cardinality(RefreshCalls) <= 1
    /\ (check # None /\ RefreshCalls = {}) => now < pre.expires_at
    /\ RefreshSucceeded =>
          /\ Cardinality(RefreshCalls) = 1
          /\ client.access_token.access_token =
                (IF "access_token" \in DOMAIN RefreshJson
                 THEN RefreshJson["access_token"] ELSE "")
          /\ client.access_token.expires_in =
                (IF "expires_in" \in DOMAIN RefreshJson
                 THEN RefreshJson["expires_in"] ELSE 0)
          /\ storedAt = now
          /\ client.expires_at = now + client.access_token.expires_in
    /\ client.expires_at = storedAt + client.access_token.expires_in

C4_Witness ==
    /\ RefreshSucceeded
    /\ now >= pre.expires_at
    /\ pc = "idle"
    /\ Cardinality(RefreshCalls) = 1
    /\ client.access_token.access_token = "at1"
    /\ client.access_token # pre.access_token
    /\ now = 1
    /\ client.expires_at = 3

\* C5: when the refresh fails (transport error, non-2xx answer, unreadable
\* body) request() has returned that error and the client is exactly as it was
\* when request() was called.
C5_FailedRefreshLeavesClient ==
    RefreshFailed =>
        /\ ReturnedErr
        /\ outcome = check
        /\ client = pre

C5_Witness ==
    /\ RefreshFailed
    /\ Unwrap(refreshed).kind = "response"
    /\ Unwrap(refreshed).status = 400
    /\ ReturnedErr
    /\ client = pre
    /\ is_expired(client, now)

IsEntryStep == mode = "Uninitialized" /\ mode' # "Uninitialized"

\* the step is a call of a configuration method
IsConfigureStep == pc = "idle" /\ pc' = "idle" /\ ops' # ops

\* C7: an entry transition from an Uninitialized builder seeds method, URL and
\* payload: get_events GET on /calendars/c/events, no payload; insert_event POST
\* on the same URL and a Create payload holding the given start and end and
\* nothing else; patch_event PATCH on /calendars/c/events/e and a Patch payload
\* with nothing set; delete_event DELETE on /calendars/c/events/e, no payload.
C7_EntrySeeds ==
    [][ IsEntryStep =>
          LET a == Unwrap(given')
              events == "https://www.googleapis.com/calendar/v3/calendars/"
                            \o a.calendar_id \o "/events"
          IN /\ request'.params = request.params
             /\ CASE mode' = "EventListMode" ->
                       /\ request'.method = "GET"
                       /\ request'.url = events
                       /\ event' = None
                  [] mode' = "EventInsertMode" ->
                       /\ request'.method = "POST"
                       /\ request'.url = events
                       /\ event' # None
                       /\ Unwrap(event').variant = "Create"
                       /\ Unwrap(event').req.start = a.start
                       /\ Unwrap(event').req.end = a.end
                       /\ \A f \in DOMAIN Unwrap(event').req \ {"start", "end"} :
                              Unwrap(event').req[f] = << >>
                  [] mode' = "EventPatchMode" ->
                       /\ request'.method = "PATCH"
                       /\ request'.url = events \o "/" \o a.event_id
                       /\ event' # None
                       /\ Unwrap(event').variant = "Patch"
                       /\ \A f \in DOMAIN Unwrap(event').req :
                              Unwrap(event').req[f] = << >>
                  [] mode' = "EventDeleteMode" ->
                       /\ request'.method = "DELETE"
                       /\ request'.url = events \o "/" \o a.event_id
                       /\ event' = None ]_vars

C7_Witness ==
    /\ mode = "EventPatchMode"
    /\ ops = 0
    /\ written = EmptyMap
    /\ given = Some([calendar_id |-> "team", event_id |-> "ev1"])
    /\ request.method = "PATCH"
    /\ request.url = "https://www.googleapis.com/calendar/v3/calendars/team/events/ev1"
    /\ event = Some(Patch(PatchEventRequest_default))

\* C8: in every reachable state an InsertMode builder holds a Create payload and
\* a PatchMode builder holds a Patch payload, whatever configuration methods
\* and request() calls came before.
C8_PayloadMatchesMode ==
    /\ mode = "EventInsertMode" => (event # None /\ Unwrap(event).variant = "Create")
    /\ mode = "EventPatchMode" => (event # None /\ Unwrap(event).variant = "Patch")

C8_Witness ==
    /\ mode = "EventInsertMode"
    /\ "set_summary" \in DOMAIN written
    /\ outcome # None
    /\ event # None
    /\ Unwrap(event).variant = "Create"
    /\ Unwrap(event).req.summary = Some(written["set_summary"].last)

\* the builder the entry transition made, from the arguments it was given
Entered ==
    CASE mode = "EventListMode" ->
           get_events(CalendarEventsClient_new, Unwrap(given).calendar_id)
      [] mode = "EventInsertMode" ->
           insert_event(CalendarEventsClient_new, Unwrap(given).calendar_id,
                        Unwrap(given).start, Unwrap(given).end)
      [] mode = "EventPatchMode" ->
           patch_event(CalendarEventsClient_new, Unwrap(given).calendar_id,
                       Unwrap(given).event_id)
      [] mode = "EventDeleteMode" ->
           delete_event(CalendarEventsClient_new, Unwrap(given).calendar_id,
                        Unwrap(given).event_id)

\* configuration method name of b's mode called on b with v
ModeCall(b, name, v) ==
    CASE b.mode = "EventListMode" -> ListCall(b, name, v)
      [] b.mode = "EventInsertMode" -> InsertCall(b, name, v)
      [] b.mode = "EventPatchMode" -> PatchCall(b, name, v)
      [] b.mode = "EventDeleteMode" -> DeleteCall(b, name, v)

\* each method of names called once on b, with the value of its last call
RECURSIVE ApplyLast(_, _)
ApplyLast(b, names) ==
    IF names = {}
    THEN b
    ELSE LET name == CHOOSE n \in names : TRUE
         IN ApplyLast(ModeCall(b, name, written[name].last), names \ {name})

\* C9: however often a configuration method was called, only its last value is
\* in effect: the builder is the one that a single call of each method with its
\* last value makes, so setters overwrite and the attendees and recurrence
\* lists are the last list given, not a merge with earlier ones.
C9_LastValueWins ==
    mode # "Uninitialized" => Self = ApplyLast(Entered, DOMAIN written)

C9_Witness ==
    /\ mode = "EventPatchMode"
    /\ DOMAIN written = {"set_attendees"}
    /\ written["set_attendees"].before # None
    /\ Unwrap(written["set_attendees"].before) # << >>
    /\ written["set_attendees"].last # << >>
    /\ written["set_attendees"].last # Unwrap(written["set_attendees"].before)
    /\ Unwrap(event).req.attendees = written["set_attendees"].last

\* the query-parameter keys whose presence or value the step changes
ParamsChanged ==
    { k \in DOMAIN request.params \cup DOMAIN request'.params :
        ~ /\ k \in DOMAIN request.params
          /\ k \in DOMAIN request'.params
          /\ request.params[k] = request'.params[k] }

\* the payload fields the step changes ("variant" for the payload as a whole)
PayloadChanged ==
    IF event = None \/ event' = None
    THEN IF event = event' THEN {} ELSE {"variant"}
    ELSE IF Unwrap(event).variant # Unwrap(event').variant
    THEN {"variant"}
    ELSE { f \in DOMAIN Unwrap(event).req :
             Unwrap(event).req[f] # Unwrap(event').req[f] }

\* C10: a call of a configuration method changes one query-parameter key or one
\* payload field and nothing else: the other parameters, the other payload
\* fields, the mode, the method, the URL and the client stay as they were.
C10_OneFieldChanged ==
    [][ IsConfigureStep =>
          /\ mode' = mode
          /\ request'.method = request.method
          /\ request'.url = request.url
          /\ client' = client
          /\ Cardinality(ParamsChanged) + Cardinality(PayloadChanged) <= 1 ]_vars

C10_Witness ==
    /\ mode = "EventListMode"
    /\ DOMAIN written = {"order_by", "max_results"}
    /\ DOMAIN request.params = {"orderBy", "maxResults"}
    /\ request.params["orderBy"] = "startTime"
    /\ request.params["maxResults"] = "250"
    /\ request.method = "GET"
    /\ event = None

\* C11: the resource call carries the builder's URL and query parameters; a GET
\* or DELETE call has no body, a POST or PATCH call has the serialized held
\* payload as its body.
C11_BodyByMethod ==
    \A i \in ResourceCalls :
        /\ calls[i].url = request.url
        /\ calls[i].query = request.params
        /\ calls[i].method =
              (IF path = "make_delete_request" THEN "DELETE" ELSE request.method)
        /\ calls[i].method \in {"GET", "DELETE"} => calls[i].body = None
        /\ calls[i].method \in {"POST", "PATCH"} =>
              /\ event # None
              /\ calls[i].body = Some(to_string(event))

C11_Witness ==
    /\ mode = "EventPatchMode"
    /\ Len(calls) = 1
    /\ calls[1].method = "PATCH"
    /\ DOMAIN calls[1].query = {"sendUpdates"}
    /\ calls[1].query["sendUpdates"] = "all"
    /\ calls[1].body = Some(<< >>)
    /\ pc = "awaiting"

\* the resource call got an answer with a status that is not 2xx
ResourceRefused ==
    /\ answer # None
    /\ Unwrap(answer).kind = "response"
    /\ ~(Unwrap(answer).status >= 200 /\ Unwrap(answer).status < 300)

\* a status as the error message shows it
StatusShown(status) ==
    CASE status = 400 -> "400 Bad Request"
      [] status = 401 -> "401 Unauthorized"
      [] status = 404 -> "404 Not Found"
      [] status = 500 -> "500 Internal Server Error"

C13_EmptyBodyIsNoResult ==
    ( /\ mode = "EventListMode"
      /\ answer # None
      /\ Unwrap(answer).kind = "response"
      /\ Unwrap(answer).status >= 200 /\ Unwrap(answer).status < 300 ) =>
        /\ pc = "idle"
        /\ outcome # None
        /\ Unwrap(outcome).ok
        /\ IF Unwrap(answer).text = Some("")
           THEN Unwrap(outcome).value = None
           ELSE Unwrap(outcome).value # None

\* C14: DeleteMode request() returns success, with no value decoded from the
\* body, on a 2xx answer whatever its body, and on an answer that is not 2xx an
\* error whose message holds the status and the text of the body.
C14_DeleteResult ==
    (path = "make_delete_request" /\ answer # None /\ Unwrap(answer).kind = "response") =>
        /\ pc = "idle"
        /\ outcome # None
        /\ IF Unwrap(answer).status >= 200 /\ Unwrap(answer).status < 300
           THEN outcome = Some([ok |-> TRUE, value |-> "unit"])
           ELSE /\ ~Unwrap(outcome).ok
                /\ Unwrap(outcome).message =
                      "Delete request failed with status "
                        \o StatusShown(Unwrap(answer).status) \o ": "
                        \o (IF Unwrap(answer).text = None
                            THEN "" ELSE Unwrap(Unwrap(answer).text))

C14_Witness ==
    /\ mode = "EventDeleteMode"
    /\ answer # None
    /\ Unwrap(answer).kind = "response"
    /\ Unwrap(answer).status = 404
    /\ ReturnedErr
    /\ Unwrap(outcome).message = "Delete request failed with status 404 Not Found: Not Found"

\* request() of an InsertMode or PatchMode builder has returned
EventRequestReturned ==
    /\ mode \in {"EventInsertMode", "EventPatchMode"}
    /\ pc = "idle"
    /\ outcome # None

\* C15: InsertMode and PatchMode request() returns Ok(Some(event))
\* when the request succeeds, Ok(None) when the answer is not 2xx, and Err when
\* the request could not be made.
C15_NoneWhenUnsuccessful ==
    EventRequestReturned =>
        /\ ResourceRefused => outcome = Some([ok |-> TRUE, value |-> None])
        /\ (answer # None /\ Unwrap(answer).kind = "error") => ~Unwrap(outcome).ok
        /\ (answer # None /\ Unwrap(answer).kind = "response" /\ ~ResourceRefused
               /\ Unwrap(answer).json # None) =>
              outcome = Some([ok |-> TRUE, value |-> Unwrap(answer).json])

\* C16: once a request() of the builder has dispatched the Request Context, the
\* same context is not dispatched again.
C16_DispatchedOnce == Len(sent) <= 1

\* the resource call the dispatch function builds from the builder as it is
ContextCall ==
    [ method |-> IF mode = "EventDeleteMode" THEN "DELETE" ELSE request.method,
      url |-> request.url,
      query |-> request.params,
      body |-> IF mode \in {"EventInsertMode", "EventPatchMode"}
               THEN Some(to_string(event)) ELSE None ]

\* C16, amended: the Request Context is dispatched only by a request() of the
\* builder that holds it, one resource call per request(); request() borrows
\* the builder, so a later request() dispatches the same context again.
C16_DispatchedOncePerRequest ==
    [][ sent' # sent =>
          \/ sent' = << >>
          \/ /\ pc \in {"check", "refreshing"}
             /\ pc' = "awaiting"
             /\ ResourceCalls = {}
             /\ sent' = Append(sent, ContextCall)
             /\ net' = Some(ContextCall) ]_vars

C16_Witness ==
    /\ mode = "EventDeleteMode"
    /\ pc = "idle"
    /\ Len(sent) = 2
    /\ sent[1] = ContextCall
    /\ sent[2] = ContextCall
    /\ outcome # None

\* the step belongs to a running request(): from its start to its return
IsRequestStep == pc # "idle" \/ pc' # "idle"

\* C17: request() may be called again on the same builder and each call that
\* passes the token check sends its own resource call; no step of request()
\* changes the builder's mode, method, URL, query parameters or payload, so the
\* calls of successive request()s are the same request.
C17_RequestLeavesBuilder ==
    /\ [][IsRequestStep => (mode' = mode /\ request' = request /\ event' = event)]_vars
    /\ [](\A i \in 1..Len(sent) : sent[i] = ContextCall)

C17_Witness ==
    /\ mode = "EventInsertMode"
    /\ pc = "awaiting"
    /\ Len(sent) = 2
    /\ sent[1] = sent[2]
    /\ sent[2].method = "POST"
    /\ DOMAIN Unwrap(sent[2].body) = {"start", "end"}
    /\ net = Some(sent[2])
    /\ ops = 2

\* the query-parameter key of each ListMode configuration method
ListKey(name) ==
    CASE name = "max_results" -> "maxResults"
      [] name = "page_token" -> "pageToken"
      [] name = "time_min" -> "timeMin"
      [] name = "time_max" -> "timeMax"
      [] name = "event_type" -> "eventTypes"
      [] name = "order_by" -> "orderBy"
      [] name = "max_attendees" -> "maxAttendees"
      [] name = "single_events" -> "singleEvents"
      [] name = "show_hidden_invitations" -> "showHiddenInvitations"
      [] name = "query" -> "q"

\* the text each ListMode configuration method is expected to store for v
ListText(name, v) ==
    CASE name \in {"max_results", "max_attendees"} ->
           (CASE v = 10 -> "10" [] v = 250 -> "250")
      [] name \in {"page_token", "query"} -> v
      [] name \in {"time_min", "time_max"} ->
           (CASE v.year = 2025 -> "2025-07-28T09:05:00+00:00"
              [] v.year = 2026 -> "2026-11-02T23:30:59+00:00")
      [] name = "event_type" ->
           (CASE v = "Birthday" -> "birthday"
              [] v = "Default" -> "default"
              [] v = "FocusTime" -> "focusTime"
              [] v = "FromGmail" -> "fromGmail"
              [] v = "OutOfOffice" -> "outOfOffice"
              [] v = "WorkingLocation" -> "workingLocation")
      [] name = "order_by" ->
           (CASE v = "StartTime" -> "startTime" [] v = "Updated" -> "updated")
      [] name \in {"single_events", "show_hidden_invitations"} ->
           (IF v THEN "true" ELSE "false")

\* C18: on a ListMode builder the query parameters are exactly the keys of the
\* configuration methods called since get_events, each with the text of the
\* last value given; max_results(10), time_min(T1), time_max(T2),
\* event_type(Birthday) gives exactly maxResults "10", timeMin and timeMax in
\* RFC 3339 and eventTypes "birthday".
C18_ListQueryExact ==
    mode = "EventListMode" =>
        /\ DOMAIN request.params = {ListKey(name) : name \in DOMAIN written}
        /\ \A name \in DOMAIN written :
              request.params[ListKey(name)] = ListText(name, written[name].last)

C18_Witness ==
    /\ mode = "EventListMode"
    /\ DOMAIN written = {"max_results", "time_min", "time_max", "event_type"}
    /\ written["max_results"].last = 10
    /\ written["time_min"].last.year = 2025
    /\ written["time_max"].last.year = 2026
    /\ written["event_type"].last = "Birthday"
    /\ request.params =
          [ k \in {"maxResults", "timeMin", "timeMax", "eventTypes"} |->
              CASE k = "maxResults" -> "10"
                [] k = "timeMin" -> "2025-07-28T09:05:00+00:00"
                [] k = "timeMax" -> "2026-11-02T23:30:59+00:00"
                [] k = "eventTypes" -> "birthday" ]

\* C19: the query-parameter keys of a builder are among those of its mode: ten
\* keys for ListMode, four for PatchMode, sendUpdates for DeleteMode and none
\* for InsertMode, so the pagination and time-range keys occur on ListMode only.
C19_KeysOfMode ==
    DOMAIN request.params \subseteq
        ( CASE mode = "EventListMode" ->
                 { "maxResults", "pageToken", "timeMin", "timeMax", "eventTypes",
                   "orderBy", "maxAttendees", "singleEvents",
                   "showHiddenInvitations", "q" }
            [] mode = "EventPatchMode" ->
                 { "sendUpdates", "conferenceDataVersion", "supportAttachments",
                   "maxAttendees" }
            [] mode = "EventDeleteMode" -> {"sendUpdates"}
            [] mode = "EventInsertMode" -> {}
            [] mode = "Uninitialized" -> {} )

C19_Witness ==
    /\ mode = "EventPatchMode"
    /\ DOMAIN written = {"set_send_updates", "set_max_attendees"}
    /\ DOMAIN request.params = {"sendUpdates", "maxAttendees"}
    /\ request.params["maxAttendees"] = "250"

\* C20: the payload an InsertMode builder sends when no setter was called on it
\* has the keys start and end, holding the start and end given to insert_event,
\* and no other key: every optional field is left out, none is sent as null or
\* as an empty string.
C20_BareInsertPayload ==
    (mode = "EventInsertMode" /\ written = EmptyMap) =>
        \A i \in ResourceCalls :
            /\ calls[i].body # None
            /\ DOMAIN Unwrap(calls[i].body) = {"start", "end"}
            /\ Unwrap(calls[i].body)["start"] = Unwrap(given).start
            /\ Unwrap(calls[i].body)["end"] = Unwrap(given).end

C20_Witness ==
    /\ mode = "EventInsertMode"
    /\ written = EmptyMap
    /\ pc = "idle"
    /\ outcome # None
    /\ Unwrap(outcome).ok
    /\ Len(calls) = 1
    /\ calls[1].method = "POST"
    /\ DOMAIN Unwrap(calls[1].body) = {"start", "end"}

\* the key under which each PatchMode payload setter's field is sent
PatchWireKey(name) ==
    CASE name = "set_end" -> "end"
      [] name = "set_start" -> "start"
      [] name = "set_summary" -> "summary"
      [] name = "set_description" -> "description"
      [] name = "set_attendees" -> "attendees"
      [] name = "set_color_id" -> "colorId"
      [] name = "set_event_type" -> "eventType"
      [] name = "set_guests_can_invite_others" -> "guestsCanInviteOthers"
      [] name = "set_guests_can_modify" -> "guestsCanModify"
      [] name = "set_guests_can_see_other_guests" -> "guestsCanSeeOtherGuests"
      [] name = "set_id" -> "id"
      [] name = "set_location" -> "location"
      [] name = "set_out_of_office_properties" -> "outOfOfficeProperties"
      [] name = "set_recurrence" -> "recurrence"
      [] name = "set_reminders" -> "reminders"
      [] name = "set_sequence" -> "sequence"
      [] name = "set_source" -> "source"
      [] name = "set_status" -> "status"
      [] name = "set_transparancy" -> "transparency"
      [] name = "set_visibility" -> "visibility"
      [] name = "set_working_location_properties" -> "workingLocationProperties"
      [] name = "set_extended_properties" -> "extendedProperties"

\* the PatchMode methods that write a query parameter, not the payload
PatchQuerySetters ==
    { "set_send_updates", "set_conference_data_version", "support_attachments",
      "set_max_attendees" }

\* the keys of the payload setters called on the builder
PatchKeysSet == {PatchWireKey(name) : name \in DOMAIN written \ PatchQuerySetters}

\* C21: the serialized payload of a PatchMode builder, and the body of the PATCH
\* call it sends, has no key whose setter was not called; when no payload setter
\* was called it has no key at all.
C21_PatchSendsOnlySetFields ==
    mode = "EventPatchMode" =>
        /\ DOMAIN to_string(event) \subseteq PatchKeysSet
        /\ \A i \in ResourceCalls :
              /\ calls[i].body # None
              /\ DOMAIN Unwrap(calls[i].body) \subseteq PatchKeysSet

C21_Witness ==
    /\ mode = "EventPatchMode"
    /\ DOMAIN written = {"set_sequence"}
    /\ Len(calls) = 1
    /\ calls[1].method = "PATCH"
    /\ DOMAIN Unwrap(calls[1].body) = {"sequence"}
    /\ Unwrap(calls[1].body)["sequence"] = 1


\* C23 as stated: with one chain at a time, a stale token is the cause of at
\* most one refresh call over the whole sequence of chains, and the stored
\* refresh token changes only to the one a successful refresh produced.
C23_OneRefreshPerStaleToken ==
    /\ [](attempts <= 1)
    /\ [][client'.client_credentials.refresh_token
              # client.client_credentials.refresh_token
          => /\ pc = "refreshing"
             /\ RefreshSucceeded'
             /\ "refresh_token" \in DOMAIN RefreshJson']_vars

\* C23: with one chain at a time, a refresh call is sent only by the token
\* check of a request() that finds the stored token stale, one call per
\* request(); a successful refresh replaces the token, so that a stale token is
\* refreshed again only by a later request() after its refresh failed; and the
\* stored refresh token changes only in a successful refresh, to the refresh
\* token of that answer, so that after any sequence of chains it is the one the
\* most recent successful refresh produced.
C23_RefreshPerStaleCheck ==
    /\ [](/\ attempts <= ops
          /\ attempts > 0 => now >= client.expires_at
          /\ client.access_token.refresh_token
                = client.client_credentials.refresh_token)
    /\ [][/\ Len(calls') > Len(calls) /\ calls'[Len(calls')].url = TokenUrl
             => /\ pc = "check" /\ pc' = "refreshing"
                /\ now >= client.expires_at
                /\ RefreshCalls = {}
                /\ attempts' = attempts + 1
          /\ pc = "refreshing" /\ RefreshSucceeded'
             => /\ attempts' = 0
                /\ storedAt' = now
                /\ client'.client_credentials.refresh_token
                      = (IF "refresh_token" \in DOMAIN RefreshJson'
                         THEN RefreshJson'["refresh_token"]
                         ELSE client.client_credentials.refresh_token)
          /\ client'.client_credentials.refresh_token
                # client.client_credentials.refresh_token
             => /\ pc = "refreshing"
                /\ RefreshSucceeded'
                /\ "refresh_token" \in DOMAIN RefreshJson'
                /\ client'.client_credentials.refresh_token
                      = RefreshJson'["refresh_token"]]_vars

\* a second chain has run on the token the first chain's refresh stored: it
\* sent no refresh call and the stored refresh token is the rotated one
C23_Witness ==
    /\ pc = "idle"
    /\ ops = 2
    /\ check = Some(Ok("unit"))
    /\ RefreshCalls = {}
    /\ ResourceCalls # {}
    /\ attempts = 0
    /\ storedAt = 1
    /\ client.client_credentials.refresh_token = "rt1"
    /\ client.access_token.refresh_token = "rt1"

\* C24: no sequence of builder operations reaches EventGetMode: a step out of
\* Uninitialized leads to EventListMode, EventInsertMode, EventPatchMode or
\* EventDeleteMode, the only other change of mode is the construction of a new
\* Uninitialized builder, and no configuration method or request() changes the
\* mode.
C24_GetModeUnreachable ==
    /\ [](mode \in {"Uninitialized", "EventListMode", "EventInsertMode",
                    "EventPatchMode", "EventDeleteMode"})
    /\ [][/\ mode = "Uninitialized" /\ mode' # mode
             => mode' \in {"EventListMode", "EventInsertMode",
                           "EventPatchMode", "EventDeleteMode"}
          /\ mode # "Uninitialized" /\ mode' # mode
             => mode' = "Uninitialized" /\ pc = "idle" /\ ops' = ops
          /\ (ops' # ops \/ pc' # pc) => mode' = mode]_vars

\* a builder entered through patch_event has been configured and its request()
\* has returned: it is still in EventPatchMode
C24_Witness ==
    /\ mode = "EventPatchMode"
    /\ given # None
    /\ written # EmptyMap
    /\ outcome # None
    /\ pc = "idle"
    /\ ops = 2

\* C25: "Unsupported HTTP method" is not reachable through the builder's public
\* operations: a builder in EventListMode, EventInsertMode or EventPatchMode
\* holds method GET, POST or PATCH and its request() dispatches through
\* make_request with that method, a builder in EventDeleteMode dispatches
\* through make_delete_request with DELETE, and no request() returns the
\* unsupported-method error.
C25_UnsupportedUnreachable ==
    /\ (outcome # None /\ ~Unwrap(outcome).ok)
          => Unwrap(outcome).message # "Unsupported HTTP method"
    /\ mode = "EventListMode" => request.method = "GET"
    /\ mode = "EventInsertMode" => request.method = "POST"
    /\ mode = "EventPatchMode" => request.method = "PATCH"
    /\ pc # "idle" =>
          path = (IF mode = "EventDeleteMode"
                  THEN "make_delete_request" ELSE "make_request")
    /\ \A i \in ResourceCalls :
          calls[i].method =
              (CASE mode = "EventListMode" -> "GET"
                 [] mode = "EventInsertMode" -> "POST"
                 [] mode = "EventPatchMode" -> "PATCH"
                 [] mode = "EventDeleteMode" -> "DELETE")

\* the request() of a builder in EventPatchMode has dispatched a PATCH call and
\* returned the resource
C25_Witness ==
    /\ mode = "EventPatchMode"
    /\ pc = "idle"
    /\ path = "make_request"
    /\ Len(calls) = 1
    /\ calls[1].method = "PATCH"
    /\ outcome # None
    /\ Unwrap(outcome).ok

(***************************************************************************)
(* The payload setters on every payload a builder in EventInsertMode or    *)
(* EventPatchMode can hold.  `event` is an Option<EventRequest> whatever   *)
(* the mode, so that the type allows an absent payload and a payload of    *)
(* the other variant; the entry functions never make one, so that these    *)
(* builders are drawn here.                                                *)
(***************************************************************************)
\* the payloads of the type Option<EventRequest>
ModifyPayloads ==
    {None, Some(Patch(PatchEventRequest_default))}
      \cup {Some(Create(CreateEventRequest_new(start, end))) :
               start \in StartDateTimes, end \in EndDateTimes}

\* the builders in EventInsertMode and EventPatchMode holding any payload
ModifyBuilders ==
    { [b EXCEPT !.event = e] :
        b \in {insert_event(CalendarEventsClient_new, c, start, end) :
                  c \in CalendarIds, start \in StartDateTimes, end \in EndDateTimes}
              \cup {patch_event(CalendarEventsClient_new, c, e) :
                       c \in CalendarIds, e \in EventIds},
        e \in ModifyPayloads }

InitModify ==
    /\ \E b \in ModifyBuilders :
          /\ mode = b.mode
          /\ request = b.request
          /\ event = b.event
    /\ client = GoogleClient_new(InitialCredentials, InitialToken, 0)
    /\ storedAt = 0
    /\ attempts = 0
    /\ rotated = None
    /\ now = 0
    /\ pc = "idle"
    /\ net = None
    /\ path = "none"
    /\ calls = << >>
    /\ outcome = None
    /\ check = None
    /\ refreshed = None
    /\ answer = None
    /\ pre = GoogleClient_new(InitialCredentials, InitialToken, 0)
    /\ given = None
    /\ written = EmptyMap
    /\ sent = << >>
    /\ ops = 0

NextModify == InsertConfigure \/ PatchConfigure

SpecModify == InitModify /\ [][NextModify]_vars

\* the payload setter the step has called, if any
PayloadSetterCalled ==
    \E name \in IF mode = "EventInsertMode" THEN InsertMethods ELSE PatchPayloadMethods :
        /\ name \in DOMAIN written'
        /\ name \in DOMAIN written => written'[name] # written[name]

\* C26: a payload setter of EventInsertMode called on a builder whose payload is
\* absent or is not a Create payload, and a payload setter of EventPatchMode
\* called on a builder whose payload is absent or is not a Patch payload,
\* returns the builder as it was (mode, request context and payload) and
\* nothing else happens: no error, no call.
C26_MismatchedSetterIsNoOp ==
    [][( /\ PayloadSetterCalled
         /\ \/ event = None
            \/ Unwrap(event).variant
                 # (IF mode = "EventInsertMode" THEN "Create" ELSE "Patch") )
       => /\ builderVars' = builderVars
          /\ pc' = "idle"
          /\ outcome' = None
          /\ calls' = << >>]_vars

\* set_summary has been called on a builder in EventInsertMode that holds a
\* Patch payload, and set_id on top of it: the payload is the one it held
C26_Witness ==
    /\ mode = "EventInsertMode"
    /\ event = Some(Patch(PatchEventRequest_default))
    /\ DOMAIN written = {"set_summary", "set_id"}
    /\ ops = 2
    /\ pc = "idle"

(***************************************************************************)
(* The code exchange.  get_acces_token is a free function: it takes no     *)
(* client and no builder and leaves both alone.                            *)
(***************************************************************************)
\* get_acces_token is called and its POST is sent
ExchangeCode ==
    /\ pc = "idle"
    /\ ops < MaxOps
    /\ \E code \in Codes, client_id \in ClientIds, redirect_uri \in RedirectUris :
          LET secret == InitialCredentials.client_secret
              call == exchange_form(code, secret, client_id, redirect_uri)
          IN /\ given' = Some([code |-> code, client_secret |-> secret,
                               client_id |-> client_id,
                               redirect_uri |-> redirect_uri])
             /\ net' = Some(call)
             /\ calls' = << call >>
    /\ pc' = "exchanging"
    /\ path' = "get_acces_token"
    /\ outcome' = None
    /\ answer' = None
    /\ ops' = ops + 1
    /\ UNCHANGED << builderVars, clientVars, check, refreshed, pre, written, sent >>

\* the POST is answered and get_acces_token returns
ExchangeAnswered ==
    /\ pc = "exchanging"
    /\ \E res \in ExchangeResponses :
          /\ answer' = Some(res)
          /\ outcome' = Some(get_acces_token(res))
    /\ pc' = "idle"
    /\ net' = None
    /\ UNCHANGED << builderVars, clientVars, path, calls, check, refreshed, pre,
                    given, written, sent, ops >>

\* get_oauth_url is called: it returns the URL and sends nothing
GetOAuthUrl ==
    /\ pc = "idle"
    /\ ops < MaxOps
    /\ \E client_id \in ClientIds, redirect_uri \in RedirectUris, scopes \in ScopeLists :
          /\ given' = Some([client_id |-> client_id, redirect_uri |-> redirect_uri,
                            scopes |-> scopes])
          /\ outcome' = Some(get_oauth_url(client_id, redirect_uri, scopes))
    /\ path' = "get_oauth_url"
    /\ calls' = << >>
    /\ answer' = None
    /\ ops' = ops + 1
    /\ UNCHANGED << builderVars, clientVars, check, refreshed, pre, pc, net, written,
                    sent >>

NextExchange == GetOAuthUrl \/ ExchangeCode \/ ExchangeAnswered

SpecExchange == Init /\ [][NextExchange]_vars

\* C27: get_acces_token returns a token only for a 2xx answer; for a 2xx answer
\* with a JSON body it returns a token in which every field the body has is the
\* body's and every field the body lacks is the empty string or zero; for an
\* answer that is not 2xx it returns an error whose message holds the status and
\* the text of the answer (a fixed text when the body cannot be read); for a
\* transport error it returns an error.
C27_ExchangeResult ==
    (path = "get_acces_token" /\ outcome # None) =>
        LET res == Unwrap(answer)
            r == Unwrap(outcome)
        IN /\ r.ok => res.kind = "response" /\ res.status >= 200 /\ res.status < 300
           /\ (res.kind = "response" /\ res.status >= 200 /\ res.status < 300
                 /\ res.json # None)
              => LET json == Unwrap(res.json) IN
                 /\ r.ok
                 /\ \A f \in {"token_type", "access_token", "refresh_token", "scope"} :
                       r.value[f] = (IF f \in DOMAIN json THEN json[f] ELSE "")
                 /\ r.value.expires_in =
                       (IF "expires_in" \in DOMAIN json THEN json["expires_in"] ELSE 0)
                 /\ DOMAIN json \cap {"refresh_token_expires_in",
                                      "x_refresh_token_expires_in"} = {}
                       => r.value.refresh_token_expires_in = 0
           /\ (res.kind = "response" /\ ~(res.status >= 200 /\ res.status < 300))
              => /\ ~r.ok
                 /\ r.message =
                      "Failed to retrieve access token: " \o StatusShown(res.status)
                        \o " - " \o
                        (IF res.text = None THEN "Unable to read error body"
                         ELSE Unwrap(res.text))
           /\ res.kind = "error" => ~r.ok

\* the exchange was answered 200 with a body that holds an access token and its
\* lifetime and nothing else: it returned a token with the other fields empty
C27_Witness ==
    /\ path = "get_acces_token"
    /\ pc = "idle"
    /\ answer = Some(Response(200, Some("{..}"),
                              Some([access_token |-> "at2", expires_in |-> 1])))
    /\ outcome =
          Some(Ok([ token_type |-> "", access_token |-> "at2", expires_in |-> 1,
                    refresh_token |-> "", refresh_token_expires_in |-> 0,
                    scope |-> "" ]))

\* C28: a resource call that fails in transport makes request() return the
\* transport's own error (a reqwest::Error carried by the anyhow::Error, with the
\* transport's message), while an answer that is not 2xx makes it return an
\* error made from a message, which carries no reqwest::Error: the two are
\* never the same kind of error, in make_request as in make_delete_request.
C28_TransportErrorDistinct ==
    /\ (answer # None /\ Unwrap(answer).kind = "error") =>
          /\ ReturnedErr
          /\ Unwrap(outcome).inner = "reqwest::Error"
          /\ Unwrap(outcome).message = Unwrap(answer).cause
    /\ ResourceRefused =>
          /\ ReturnedErr
          /\ Unwrap(outcome).inner = "none"
          /\ Unwrap(outcome).message # TransportError.cause

\* the resource call of a request() in EventInsertMode failed in transport and
\* request() returned the transport's error
C28_Witness ==
    /\ mode = "EventInsertMode"
    /\ path = "make_request"
    /\ ResourceCalls # {}
    /\ answer = Some(TransportError)
    /\ outcome = Some(Err("error sending request", "reqwest::Error"))
    /\ pc = "idle"

\* C29: only request() reaches the dispatch functions: a step taken while no
\* request() is running and that starts none (construction, an entry
\* transition, a configuration method) issues no call, neither to the token
\* endpoint nor to a resource, and leaves the client's credentials, token and
\* expiry as they were; a call is issued, and the client's token changed, only
\* by a step of a running request().
C29_OnlyRequestDispatches ==
    [][/\ (pc = "idle" /\ pc' = "idle")
          => /\ client' = client
             /\ storedAt' = storedAt
             /\ attempts' = attempts
             /\ net' = None
             /\ calls' = calls \/ calls' = << >>
       /\ (Len(calls') > Len(calls) \/ (net' # None /\ net' # net))
          => pc \in {"check", "refreshing"}
       /\ client' # client => pc = "refreshing"
       /\ (pc = "idle" /\ pc' # "idle")
          => /\ mode \in {"EventListMode", "EventInsertMode", "EventPatchMode",
                          "EventDeleteMode"}
             /\ client' = client
             /\ calls' = << >>]_vars

\* a builder has been constructed, entered through patch_event and configured
\* twice: no call has been issued and the client is the one it was given
C29_Witness ==
    /\ mode = "EventPatchMode"
    /\ given # None
    /\ Cardinality(DOMAIN written) = 2
    /\ ops = 2
    /\ pc = "idle"
    /\ calls = << >>
    /\ net = None
    /\ client = GoogleClient_new(InitialCredentials, InitialToken, 0)

\* C30: every value written to an enumerated query parameter is a recognized
\* one: orderBy is startTime or updated, eventTypes is one of the six event
\* types, and sendUpdates, written by set_send_updates in EventPatchMode and by
\* send_updates in EventDeleteMode, is all, externalOnly or none.
C30_EnumeratedValuesRecognized ==
    /\ "orderBy" \in DOMAIN request.params
          => request.params["orderBy"] \in {"startTime", "updated"}
    /\ "eventTypes" \in DOMAIN request.params
          => request.params["eventTypes"] \in
                { "birthday", "default", "focusTime", "fromGmail", "outOfOffice",
                  "workingLocation" }
    /\ "sendUpdates" \in DOMAIN request.params
          => request.params["sendUpdates"] \in {"all", "externalOnly", "none"}

\* the scope parameter the URL is to hold for the first n scopes of a list
ScopeText(scopes) ==
    LET text[n \in 0..Len(scopes)] ==
            IF n = 0 THEN ""
            ELSE text[n - 1] \o (IF n = 1 THEN "" ELSE " ") \o Scope_as_str(scopes[n])
    IN text[Len(scopes)]

\* C31: get_oauth_url returns the authorization URL holding, in this order,
\* client_id, redirect_uri, response_type=code, scope, access_type=offline and
\* prompt=consent, the scope being the given scopes in the given order with one
\* space between two of them, and empty for an empty list.
C31_OAuthUrl ==
    path = "get_oauth_url" =>
        LET args == Unwrap(given) IN
        /\ outcome =
              Some("https://accounts.google.com/o/oauth2/auth?client_id="
                     \o args.client_id \o "&redirect_uri=" \o args.redirect_uri
                     \o "&response_type=code&scope=" \o ScopeText(args.scopes)
                     \o "&access_type=offline&prompt=consent")
        /\ args.scopes = << >> =>
              outcome =
                Some("https://accounts.google.com/o/oauth2/auth?client_id="
                       \o args.client_id \o "&redirect_uri=" \o args.redirect_uri
                       \o "&response_type=code&scope=&access_type=offline&prompt=consent")
        /\ calls = << >>

\* the URL for two scopes, the events scope first
C31_Witness ==
    /\ path = "get_oauth_url"
    /\ given = Some([client_id |-> "client-id",
                     redirect_uri |-> "https://app.example/callback",
                     scopes |-> << "CalendarEvents", "CalendarReadOnly" >>])
    /\ outcome =
          Some("https://accounts.google.com/o/oauth2/auth?client_id=client-id&redirect_uri=https://app.example/callback&response_type=code&scope=https://www.googleapis.com/auth/calendar.events https://www.googleapis.com/auth/calendar.readonly&access_type=offline&prompt=consent")

\* the step sends a refresh call
RefreshSent == Len(calls') > Len(calls) /\ calls'[Len(calls')].url = TokenUrl

\* C32: every refresh call sends the refresh token held in the client's
\* credentials when it is sent, and over any sequence of refreshes that is the
\* refresh token of the last 2xx answer that held one (the one the client was
\* made with while no answer held one): after a rotation the next refresh call
\* carries the rotated token and not the one it replaced.
C32_RefreshSendsStoredToken ==
    [][RefreshSent =>
         LET form == calls'[Len(calls')].form IN
         /\ form.grant_type = "refresh_token"
         /\ form.refresh_token = client.client_credentials.refresh_token
         /\ form.refresh_token =
               (IF rotated = None THEN InitialCredentials.refresh_token
                ELSE Unwrap(rotated))]_vars

\* a first request() refreshed and got the rotated token rt2, a second one has
\* sent its refresh call: the call carries rt2
C32_Witness ==
    /\ pc = "refreshing"
    /\ ops = 2
    /\ rotated = Some("rt2")
    /\ Len(calls) = 1
    /\ calls[1].url = TokenUrl
    /\ calls[1].form.refresh_token = "rt2"
    /\ calls[1].form.refresh_token # InitialCredentials.refresh_token

\* the builder that the calls made so far, without those of method name, make
WithoutCall(name) == ApplyLast(Entered, DOMAIN written \ {name})

\* C33: in EventInsertMode and EventPatchMode, when the last set_attendees or
\* set_recurrence call gave the empty list, the serialized payload is the one of
\* the builder on which the method was never called and it has no attendees or
\* recurrence key, and so has the body of the call request() sends; no body ever
\* holds an empty attendees or recurrence list.
C33_EmptyListIsOmitted ==
    /\ mode \in {"EventInsertMode", "EventPatchMode"} =>
          \A name \in {"set_attendees", "set_recurrence"} \cap DOMAIN written :
              written[name].last = << >> =>
                  /\ to_string(event) = to_string(WithoutCall(name).event)
                  /\ (IF name = "set_attendees" THEN "attendees" ELSE "recurrence")
                        \notin DOMAIN to_string(event)
                  /\ \A i \in ResourceCalls :
                        calls[i].body = Some(to_string(WithoutCall(name).event))
    /\ \A i \in ResourceCalls :
          calls[i].body # None =>
              \A k \in {"attendees", "recurrence"} \cap DOMAIN Unwrap(calls[i].body) :
                  Unwrap(calls[i].body)[k] # << >>

\* set_recurrence was called with the empty list on a builder in EventPatchMode
\* and request() has sent its call: the body is the empty payload
C33_Witness ==
    /\ mode = "EventPatchMode"
    /\ DOMAIN written = {"set_recurrence"}
    /\ written["set_recurrence"].last = << >>
    /\ Len(calls) = 1
    /\ calls[1].method = "PATCH"
    /\ calls[1].body = Some(to_string(Some(Patch(PatchEventRequest_default))))

\* C34: in EventInsertMode the payload's start and end are the ones given to
\* insert_event, whatever configuration methods were called and whatever
\* request() did: no step changes them, and the serialized Create payload and
\* the body of every call sent hold both.
C34_InsertStartEndKept ==
    /\ [](mode = "EventInsertMode" =>
            /\ event # None
            /\ Unwrap(event).variant = "Create"
            /\ Unwrap(event).req.start = Unwrap(given).start
            /\ Unwrap(event).req.end = Unwrap(given).end
            /\ {"start", "end"} \subseteq DOMAIN to_string(event)
            /\ to_string(event)["start"] = Unwrap(given).start
            /\ to_string(event)["end"] = Unwrap(given).end
            /\ \A i \in ResourceCalls :
                  /\ calls[i].body # None
                  /\ {"start", "end"} \subseteq DOMAIN Unwrap(calls[i].body)
                  /\ Unwrap(calls[i].body)["start"] = Unwrap(given).start
                  /\ Unwrap(calls[i].body)["end"] = Unwrap(given).end)
    /\ [][(mode = "EventInsertMode" /\ mode' = "EventInsertMode") =>
            /\ Unwrap(event').req.start = Unwrap(event).req.start
            /\ Unwrap(event').req.end = Unwrap(event).req.end]_vars

\* a builder in EventInsertMode was given a summary and its request() has sent
\* the call: the body holds the start and end given to insert_event
C34_Witness ==
    /\ mode = "EventInsertMode"
    /\ DOMAIN written = {"set_summary"}
    /\ Len(calls) = 1
    /\ calls[1].method = "POST"
    /\ DOMAIN Unwrap(calls[1].body) = {"start", "end", "summary"}
    /\ Unwrap(calls[1].body)["start"] = Unwrap(given).start
    /\ Unwrap(calls[1].body)["end"] = Unwrap(given).end
    /\ Unwrap(given).start # Unwrap(given).end

\* the step drops the builder and constructs a new, Uninitialized one
IsNewStep ==
    /\ mode' = "Uninitialized"
    /\ request' = CalendarEventsClient_new.request
    /\ event' = CalendarEventsClient_new.event
    /\ given' = None
    /\ written' = EmptyMap

\* C35: a builder that has left Uninitialized keeps its mode, its HTTP method
\* and its URL: no configuration method and no step of request() changes them,
\* and no step takes it to another mode or back to Uninitialized; an
\* Uninitialized builder is only ever one that was newly constructed.
C35_ModeMethodUrlFixed ==
    [][/\ (mode # "Uninitialized" /\ ~IsNewStep)
          => /\ mode' = mode
             /\ request'.method = request.method
             /\ request'.url = request.url
       /\ (mode # "Uninitialized" /\ (IsConfigureStep \/ IsRequestStep))
          => /\ mode' = mode
             /\ request'.method = request.method
             /\ request'.url = request.url
       /\ (mode # "Uninitialized" /\ mode' # mode) => IsNewStep]_vars

\* a builder entered through delete_event was configured and its request() has
\* returned: it is in EventDeleteMode with the method and URL of its entry
C35_Witness ==
    /\ mode = "EventDeleteMode"
    /\ DOMAIN written = {"send_updates"}
    /\ pc = "idle"
    /\ outcome # None
    /\ request.method = "DELETE"
    /\ request.url = delete_event(CalendarEventsClient_new, Unwrap(given).calendar_id,
                                  Unwrap(given).event_id).request.url
    /\ DOMAIN request.params = {"sendUpdates"}

\* the builder that the calls made so far make when the last calls of methods
\* first and second are made after all the others, in this order
InOrder(first, second) ==
    ModeCall(ModeCall(ApplyLast(Entered, DOMAIN written \ {first, second}),
                      first, written[first].last),
             second, written[second].last)

\* C36: two configuration methods that write different fields commute: for any
\* two methods called on a builder, calling them in either order makes the
\* same query parameters and the same payload, and the builder holds them.
C36_SettersCommute ==
    mode # "Uninitialized" =>
        \A n1 \in DOMAIN written : \A n2 \in DOMAIN written \ {n1} :
            /\ InOrder(n1, n2).request.params = InOrder(n2, n1).request.params
            /\ InOrder(n1, n2).event = InOrder(n2, n1).event
            /\ request.params = InOrder(n1, n2).request.params
            /\ event = InOrder(n1, n2).event

\* order_by and single_events(false) were called on a builder in EventListMode
C36_Witness ==
    /\ mode = "EventListMode"
    /\ DOMAIN written = {"order_by", "single_events"}
    /\ written["single_events"].last = FALSE
    /\ DOMAIN request.params = {"orderBy", "singleEvents"}
    /\ request.params["singleEvents"] = "false"
    /\ request.params["orderBy"] = "startTime"

(***************************************************************************)
(* request() under fairness: the caller awaits request(), so its code runs *)
(* on, and every call it has sent is answered, by a response or by a       *)
(* transport error.                                                        *)
(***************************************************************************)
FairSpec ==
    /\ Spec
    /\ WF_vars(RefreshAccessTokenCheck)
    /\ WF_vars(RefreshAnswered)
    /\ WF_vars(Answered)

\* C37: every request() returns, given that each call it sends is answered;
\* it returns one outcome, set in the step that ends it; it passes the token
\* check once, sends at most the refresh call and then the resource call, and
\* never goes back: a failed refresh or a failed resource call ends it without
\* a further call.
C37_RequestReturns ==
    /\ (pc # "idle") ~> (pc = "idle" /\ outcome # None)
    /\ [][/\ outcome' # outcome
             => \/ outcome' = None
                \/ outcome = None /\ pc # "idle" /\ pc' = "idle"
          /\ (pc' # pc /\ pc' = "check") => pc = "idle"
          /\ (pc' # pc /\ pc' = "refreshing") => pc = "check"
          /\ (pc' # pc /\ pc' = "awaiting") => pc \in {"check", "refreshing"}
          /\ (pc = "refreshing" /\ RefreshFailed')
             => pc' = "idle" /\ calls' = calls /\ outcome' # None
          /\ (pc = "awaiting" /\ pc' # pc)
             => pc' = "idle" /\ calls' = calls /\ outcome' # None]_vars

\* a request() whose refresh was answered with a token and whose resource call
\* was answered 500 has returned the error, after its two calls
C37_Witness ==
    /\ pc = "idle"
    /\ RefreshSucceeded
    /\ ResourceFailed
    /\ Unwrap(answer).kind = "response"
    /\ Unwrap(answer).status = 500
    /\ outcome # None
    /\ ~Unwrap(outcome).ok
    /\ Len(calls) = 2
=============================================================================
